---- MODULE Spec2Model ----
(***************************************************************************)
(* Model of the reference resolver / type-graph builder of                 *)
(* fhir-spec-reader (src/src/processor.ts, processFiles and its nested     *)
(* functions; declarations in src/unnamed/part_000).                       *)
(*                                                                         *)
(* Strings are sequences of one-character strings, so that split,         *)
(* indexOf, replace, substring and pascalCase are computed as the code     *)
(* computes them.  The literal texts of error messages are kept as single  *)
(* multi-character atoms: the program never parses them.                   *)
(*                                                                         *)
(* Every nested function of processFiles is an operator that takes the     *)
(* resolver's memory m (a record of the mutable program state) and gives   *)
(* the memory after the call, together with the returned value where the   *)
(* function returns one.  m.status is "ok" while the run is in progress,   *)
(* "thrown" once a JavaScript exception is propagating to the caller of    *)
(* processFiles, and "hang" once a loop has come back to a configuration   *)
(* it was in before (the program is deterministic, so it repeats forever). *)
(***************************************************************************)
EXTENDS Integers, Sequences, FiniteSets, TLC

(***************************************************************************)
(* Bounds of the model.                                                    *)
(***************************************************************************)
\* processFiles is called at most MaxCalls times on the same Document Map.
MaxCalls == 2
\* The differential of a generated document holds at most MaxElements
\* property elements.
MaxElements == 2

(***************************************************************************)
(* Strings.                                                                *)
(***************************************************************************)
\* JavaScript's undefined / null where a string is expected.
Undefined == <<"undefined">>

\* JavaScript truthiness of a string value.
Truthy(s) == s # Undefined /\ s # <<>>

LowerChars == <<"a","b","c","d","e","f","g","h","i","j","k","l","m",
                "n","o","p","q","r","s","t","u","v","w","x","y","z">>
UpperChars == <<"A","B","C","D","E","F","G","H","I","J","K","L","M",
                "N","O","P","Q","R","S","T","U","V","W","X","Y","Z">>
DigitChars == {"0","1","2","3","4","5","6","7","8","9"}

Range(f) == {f[i] : i \in DOMAIN f}

\* Let([x \in {v} |-> e]) is e with x bound to the value of v: v is
\* computed once, however often e reads x.
Let(f) == f[CHOOSE v \in DOMAIN f : TRUE]

IsLower(c) == c \in Range(LowerChars)
IsUpper(c) == c \in Range(UpperChars)
IsDigit(c) == c \in DigitChars
IsAlnum(c) == IsLower(c) \/ IsUpper(c) \/ IsDigit(c)

ToUpper(c) ==
    IF IsLower(c) THEN UpperChars[CHOOSE i \in 1..26 : LowerChars[i] = c] ELSE c
ToLower(c) ==
    IF IsUpper(c) THEN LowerChars[CHOOSE i \in 1..26 : UpperChars[i] = c] ELSE c

\* String.prototype.indexOf for a one-character needle: 1-based position of
\* the first occurrence, 0 when there is none (JavaScript's -1).
IndexOfChar(s, c) ==
    IF \E i \in 1..Len(s) : s[i] = c
    THEN CHOOSE i \in 1..Len(s) : s[i] = c /\ \A j \in 1..(i-1) : s[j] # c
    ELSE 0

\* String.prototype.indexOf(needle): 1-based, 0 when absent.
IndexOf(s, needle) ==
    LET n == Len(needle)
        Hit(i) == SubSeq(s, i, i + n - 1) = needle
        Hits == {i \in 1..(Len(s) - n + 1) : Hit(i)}
    IN IF Hits = {} THEN 0 ELSE CHOOSE i \in Hits : \A j \in Hits : i <= j

StartsWith(s, p) == Len(s) >= Len(p) /\ SubSeq(s, 1, Len(p)) = p

\* String.prototype.replace(needle, by) with a string needle: the first
\* occurrence only.
ReplaceFirst(s, needle, by) ==
    Let([i \in {IndexOf(s, needle)} |->
       IF i = 0 THEN s
       ELSE SubSeq(s, 1, i - 1) \o by \o SubSeq(s, i + Len(needle), Len(s))])

\* String.prototype.split(sep) for a one-character separator.
RECURSIVE Split(_, _)
Split(s, sep) ==
    Let([i \in {IndexOfChar(s, sep)} |->
       IF i = 0 THEN <<s>>
       ELSE <<SubSeq(s, 1, i - 1)>> \o Split(SubSeq(s, i + 1, Len(s)), sep)])

\* Array.prototype.join(sep).
RECURSIVE Join(_, _)
Join(parts, sep) ==
    IF Len(parts) = 0 THEN <<>>
    ELSE IF Len(parts) = 1 THEN parts[1]
    ELSE parts[1] \o <<sep>> \o Join(Tail(parts), sep)

\* String.prototype.trim (spaces only).
RECURSIVE TrimLeft(_)
TrimLeft(s) == IF Len(s) > 0 /\ s[1] = " " THEN TrimLeft(Tail(s)) ELSE s
RECURSIVE TrimRight(_)
TrimRight(s) ==
    IF Len(s) > 0 /\ s[Len(s)] = " " THEN TrimRight(SubSeq(s, 1, Len(s) - 1)) ELSE s
Trim(s) == TrimRight(TrimLeft(s))

Last(s) == s[Len(s)]

(***************************************************************************)
(* changeCase.pascalCase (change-case 3: no-case, camel-case, pascal-case).*)
(* The text is cut into words at every run of non-alphanumeric characters, *)
(* between a lower-case letter or digit and an upper-case letter, and      *)
(* between an upper-case letter and an upper-case letter that starts a     *)
(* lower-case run; every word is lower-cased; a word that starts with a    *)
(* digit is joined with "_", any other with its first letter upper-cased;  *)
(* the first character of the result is upper-cased.                       *)
(***************************************************************************)
\* A word boundary lies between positions i and i+1 of s.
CamelBoundary(s, i) ==
    /\ i >= 1 /\ i < Len(s)
    /\ \/ (IsLower(s[i]) \/ IsDigit(s[i])) /\ IsUpper(s[i + 1])
       \/ IsUpper(s[i]) /\ IsUpper(s[i + 1]) /\ i + 2 <= Len(s) /\ IsLower(s[i + 2])

\* The words of s, lower-cased; cur is the word being read.
RECURSIVE NoCaseWords(_, _, _)
NoCaseWords(s, i, cur) ==
    IF i > Len(s) THEN (IF cur = <<>> THEN <<>> ELSE <<cur>>)
    ELSE IF ~IsAlnum(s[i])
         THEN (IF cur = <<>> THEN <<>> ELSE <<cur>>) \o NoCaseWords(s, i + 1, <<>>)
    ELSE IF CamelBoundary(s, i)
         THEN <<Append(cur, ToLower(s[i]))>> \o NoCaseWords(s, i + 1, <<>>)
    ELSE NoCaseWords(s, i + 1, Append(cur, ToLower(s[i])))

RECURSIVE CamelJoin(_)
CamelJoin(words) ==
    IF Len(words) = 0 THEN <<>>
    ELSE LET w == words[1]
         IN (IF IsDigit(w[1]) THEN <<"_">> \o w
             ELSE <<ToUpper(w[1])>> \o Tail(w)) \o CamelJoin(Tail(words))

pascalCase(s) ==
    Let([words \in {NoCaseWords(s, 1, <<>>)} |->
       IF Len(words) = 0 THEN <<>>
       ELSE Let([camel \in {words[1] \o CamelJoin(Tail(words))} |->
               <<ToUpper(camel[1])>> \o Tail(camel)])])

isNumberCharacter(c) == IsDigit(c)

\* text.charCodeAt(0) of the empty string is NaN, which is no digit.
startsWithNumber(text) == Len(text) > 0 /\ isNumberCharacter(text[1])

formatName(name) ==
    Let([n \in {pascalCase(name)} |->
       IF startsWithNumber(n) THEN <<"_">> \o n ELSE n])

(***************************************************************************)
(* The Document Map (src/unnamed/part_000, SpecificationFile and           *)
(* SpecificationFileMap) and the type nodes.                               *)
(***************************************************************************)
VARIABLES
    files,        \* the Document Map: document id -> {id, filename, content}
    order,        \* the map's iteration order (for .. in): sequence of ids
    fileState,    \* per document: referenced, queued, processed, symbol, type
    heap,         \* the named type nodes allocated so far (node id = index)
    enumArrays,   \* the member arrays of the enum types (array id = index)
    enumMembers,  \* the EnumMember objects allocated so far
    typesByName,  \* processFiles' registry: type name -> node id
    result,       \* processFiles' result: [types, errors]
    currentFile,  \* processFiles' cursor: id of the document being processed
    pc,           \* where the caller and processFiles are
    next,         \* position of processFiles' for .. in loop in order
    calls,        \* number of processFiles calls started
    returned,     \* the results returned so far, one per finished call
    walk,         \* hasBaseInterface's local baseType when its loop repeats
    log           \* history of the run: the writes and calls, in order

vars == <<files, order, fileState, heap, enumArrays, enumMembers, typesByName,
          result, currentFile, pc, next, calls, returned, walk, log>>

\* No node (a falsy file.type, a null return).
NoNode == 0

\* TypeCategory (src/unnamed/part_000): a const enum numbered from 0.
CatNone == 0
CatPrimitive == 1
CatDataType == 2
CatResource == 3
CatSubType == 4
CatValueSet == 5
CatCodeSystem == 6

\* category & mask, for the mask CatSubType = 4 (a single bit).
HasCategoryBit(category, mask) == (category \div mask) % 2 = 1

\* TypeKind.ObjectTypes = InterfaceType | ObjectType.
ObjectTypes == {"InterfaceType", "ObjectType"}

\* The unnamed type values a property holds.  They are never shared and
\* mutated after sharing, so they are values, not heap nodes.
UndefinedType == [kind |-> "undefined"]

createTypeReference(name) ==
    [kind |-> "TypeReference", category |-> CatNone, name |-> name,
     binding |-> Undefined]

createArrayType(elementType) ==
    [kind |-> "ArrayType", category |-> CatNone, elementType |-> elementType]

createUnionType(types) ==
    [kind |-> "UnionType", category |-> CatNone, types |-> types]

\* A named node as getTypeByName returns it: a pointer into the heap.
Resolved(n) == [kind |-> "Resolved", node |-> n]

\* The named nodes.  Allocation appends to the heap.
createInterfaceType(name, category) ==
    [kind |-> "InterfaceType", category |-> category, name |-> name,
     description |-> Undefined, baseType |-> Undefined, properties |-> <<>>,
     members |-> 0, intrinsicType |-> Undefined]

createPrimitiveType(name, intrinsicType) ==
    [kind |-> "Primitive", category |-> CatPrimitive, name |-> name,
     description |-> Undefined, baseType |-> Undefined, properties |-> <<>>,
     members |-> 0, intrinsicType |-> intrinsicType]

createEnumType(name, category, description, members) ==
    [kind |-> "EnumType", category |-> category, name |-> name,
     description |-> description, baseType |-> Undefined, properties |-> <<>>,
     members |-> members, intrinsicType |-> Undefined]

\* The kind of a type as the code reads it (currentType.kind).
KindOf(m, t) == IF t.kind = "Resolved" THEN m.heap[t.node].kind ELSE t.kind

\* The name of a type as the code reads it (type.name).
NameOf(m, t) ==
    IF t.kind = "Resolved" THEN m.heap[t.node].name
    ELSE IF t.kind = "TypeReference" THEN t.name
    ELSE Undefined

\* Allocation of a named node: the memory after it and the node's id.
Alloc(m, node) ==
    [m |-> [m EXCEPT !.heap = Append(@, node)], r |-> Len(m.heap) + 1]

\* One entry of the history.
Logged(m, ev, what) == [m EXCEPT !.log = Append(@, <<ev, what>>)]

\* A JavaScript exception (TypeError, ReferenceError): nothing in
\* processFiles catches it, so it ends the call.
Throw(m, what) == Logged([m EXCEPT !.status = "thrown"], "throw", what)

(***************************************************************************)
(* Resolver driver: addError, the predicates of the seed sweep.            *)
(***************************************************************************)
\* util.format: the message's literal text is one atom, its %s arguments
\* are spliced in.
addError(m, msg) ==
    Let([text \in {IF m.currentFile # Undefined
                THEN files[m.currentFile].filename \o <<":", " ">> \o msg
                ELSE msg} |->
       Logged([m EXCEPT !.errors = Append(@, text)], "error", text)])

isResourceDefinition(file) ==
    /\ file.hasContent
    /\ file.resourceType = "StructureDefinition"
    /\ file.kind = "resource"

\* isConstrainedType that never answers yes, so that the loop of
\* processFiles seeds the constrained resource definitions too.
isConstrainedTypeNever(file) == FALSE

isConstrainedType(file) == file.derivation = "constraint"

HttpBase == <<"h","t","t","p",":","/","/","h","l","7",".","o","r","g","/",
              "f","h","i","r","/","S","t","r","u","c","t","u","r","e",
              "D","e","f","i","n","i","t","i","o","n","/">>

\* profile.substring(base.length) whatever the position of base in profile.
getResourceNameFromProfile(m, profile) ==
    IF IndexOf(profile, HttpBase) = 0
    THEN [m |-> addError(m, <<"Unrecognized profile uri: '">> \o profile \o <<"'.">>),
          r |-> Undefined]
    ELSE [m |-> m, r |-> SubSeq(profile, Len(HttpBase) + 1, Len(profile))]

getPropertyName(path) ==
    IF Truthy(path) THEN Last(Split(path, ".")) ELSE Undefined

getPropertyForType(m, n, propertyName) ==
    LET props == m.heap[n].properties
        Hits == {i \in 1..Len(props) : props[i].name = propertyName}
    IN IF Hits = {} THEN 0 ELSE CHOOSE i \in Hits : \A j \in Hits : i <= j

getProperty(m, n, name) == getPropertyForType(m, n, name)

\* getIntrinsicType without the case "boolean".
getIntrinsicTypeNoBoolean(primitiveType) ==
    LET str == <<"s","t","r","i","n","g">>
        num == <<"n","u","m","b","e","r">>
    IN CASE primitiveType = <<"i","n","s","t","a","n","t">> -> str
         [] primitiveType = <<"t","i","m","e">> -> str
         [] primitiveType = <<"d","a","t","e">> -> str
         [] primitiveType = <<"d","a","t","e","T","i","m","e">> -> str
         [] primitiveType = <<"d","e","c","i","m","a","l">> -> num
         [] primitiveType = <<"i","n","t","e","g","e","r">> -> num
         [] primitiveType = <<"b","a","s","e","6","4","B","i","n","a","r","y">> -> str
         [] primitiveType = <<"s","t","r","i","n","g">> -> str
         [] primitiveType = <<"u","r","i">> -> str
         [] primitiveType = <<"u","n","s","i","g","n","e","d","I","n","t">> -> num
         [] primitiveType = <<"p","o","s","i","t","i","v","e","I","n","t">> -> num
         [] primitiveType = <<"c","o","d","e">> -> str
         [] primitiveType = <<"i","d">> -> str
         [] primitiveType = <<"o","i","d">> -> str
         [] primitiveType = <<"m","a","r","k","d","o","w","n">> -> str
         [] OTHER -> Undefined

getIntrinsicType(primitiveType) ==
    LET str == <<"s","t","r","i","n","g">>
        num == <<"n","u","m","b","e","r">>
        bool == <<"b","o","o","l","e","a","n">>
    IN CASE primitiveType = <<"i","n","s","t","a","n","t">> -> str
         [] primitiveType = <<"t","i","m","e">> -> str
         [] primitiveType = <<"d","a","t","e">> -> str
         [] primitiveType = <<"d","a","t","e","T","i","m","e">> -> str
         [] primitiveType = <<"d","e","c","i","m","a","l">> -> num
         [] primitiveType = <<"b","o","o","l","e","a","n">> -> bool
         [] primitiveType = <<"i","n","t","e","g","e","r">> -> num
         [] primitiveType = <<"b","a","s","e","6","4","B","i","n","a","r","y">> -> str
         [] primitiveType = <<"s","t","r","i","n","g">> -> str
         [] primitiveType = <<"u","r","i">> -> str
         [] primitiveType = <<"u","n","s","i","g","n","e","d","I","n","t">> -> num
         [] primitiveType = <<"p","o","s","i","t","i","v","e","I","n","t">> -> num
         [] primitiveType = <<"c","o","d","e">> -> str
         [] primitiveType = <<"i","d">> -> str
         [] primitiveType = <<"o","i","d">> -> str
         [] primitiveType = <<"m","a","r","k","d","o","w","n">> -> str
         [] OTHER -> Undefined

(***************************************************************************)
(* Resolver driver and type registry.  referenceFile and processFile are   *)
(* re-entered from the walker and the composer, so they are declared here  *)
(* and defined after them.                                                 *)
(***************************************************************************)
RECURSIVE referenceFile(_, _)
RECURSIVE processFile(_, _)

\* addTypeToResults with types.unshift(type) for types.push(type).
addTypeToResultsUnshift(m, n) ==
    LET name == m.heap[n].name
        m1 == IF Truthy(name)
              THEN IF name \in DOMAIN m.typesByName
                   THEN addError(m, <<"Duplicate type name '">> \o name \o <<"'.">>)
                   ELSE [m EXCEPT !.typesByName = (name :> n) @@ @]
              ELSE m
    IN Logged([m1 EXCEPT !.types = <<n>> \o @], "push", n)

\* addTypeToResults that, on a collision, reports it and then registers the
\* new node under the name all the same.
addTypeToResultsOverwrite(m, n) ==
    LET name == m.heap[n].name
        m1 == IF Truthy(name)
              THEN IF name \in DOMAIN m.typesByName
                   THEN [addError(m, <<"Duplicate type name '">> \o name \o <<"'.">>)
                            EXCEPT !.typesByName[name] = n]
                   ELSE [m EXCEPT !.typesByName = (name :> n) @@ @]
              ELSE m
    IN Logged([m1 EXCEPT !.types = Append(@, n)], "push", n)

\* addTypeToResults that pushes the node onto the list a second time.
addTypeToResultsTwice(m, n) ==
    LET name == m.heap[n].name
        m1 == IF Truthy(name)
              THEN IF name \in DOMAIN m.typesByName
                   THEN addError(m, <<"Duplicate type name '">> \o name \o <<"'.">>)
                   ELSE [m EXCEPT !.typesByName = (name :> n) @@ @]
              ELSE m
    IN Logged([m1 EXCEPT !.types = Append(Append(@, n), n)], "push", n)

\* addTypeToResults that reports a collision and leaves the node out of the
\* list.
addTypeToResultsDropDuplicate(m, n) ==
    LET name == m.heap[n].name
    IN IF Truthy(name) /\ name \in DOMAIN m.typesByName
       THEN addError(m, <<"Duplicate type name '">> \o name \o <<"'.">>)
       ELSE LET m1 == IF Truthy(name)
                      THEN [m EXCEPT !.typesByName = (name :> n) @@ @]
                      ELSE m
            IN Logged([m1 EXCEPT !.types = Append(@, n)], "push", n)

addTypeToResults(m, n) ==
    LET name == m.heap[n].name
        m1 == IF Truthy(name)
              THEN IF name \in DOMAIN m.typesByName
                   THEN addError(m, <<"Duplicate type name '">> \o name \o <<"'.">>)
                   ELSE [m EXCEPT !.typesByName = (name :> n) @@ @]
              ELSE m
    IN Logged([m1 EXCEPT !.types = Append(@, n)], "push", n)

getTypeByName(m, name) ==
    IF ~Truthy(name) THEN [m |-> m, r |-> NoNode]
    ELSE IF name \in DOMAIN m.typesByName
         THEN [m |-> m, r |-> m.typesByName[name]]
    ELSE IF name \in DOMAIN files
         THEN Let([m1 \in {referenceFile(m, name)} |->
                 [m |-> m1,
                  r |-> IF m1.status = "ok" THEN m1.fileState[name].type ELSE NoNode]])
    ELSE [m |-> m, r |-> NoNode]

\* while (currentType.kind === ArrayType) currentType = elementType
RECURSIVE StripArrays(_)
StripArrays(t) == IF t.kind = "ArrayType" THEN StripArrays(t.elementType) ELSE t

\* r is UndefinedType for a null or undefined return.
getReferencedType(m, currentType, category) ==
    IF currentType = UndefinedType THEN [m |-> m, r |-> UndefinedType]
    ELSE Let([t \in {StripArrays(currentType)} |->
            IF t = UndefinedType
            THEN \* an array of undefined: reading .kind of undefined
                 [m |-> Throw(m, "TypeError"), r |-> UndefinedType]
            ELSE IF t.kind = "TypeReference"
            THEN Let([g \in {getTypeByName(m, t.name)} |->
                    IF g.m.status # "ok" THEN [m |-> g.m, r |-> UndefinedType]
                    ELSE IF g.r = NoNode
                    THEN [m |-> addError(g.m, <<"Could not find type with name '">>
                                               \o t.name \o <<"'.">>),
                          r |-> UndefinedType]
                    ELSE IF category # CatNone
                            /\ ~HasCategoryBit(g.m.heap[g.r].category, category)
                    THEN [m |-> g.m, r |-> UndefinedType]
                    ELSE [m |-> g.m, r |-> Resolved(g.r)]])
            ELSE [m |-> m, r |-> t]])

\* The loop of hasBaseInterface.  seen holds the configurations (local
\* baseType, memory) the loop has been in: coming back to one of them, the
\* loop repeats forever.
RECURSIVE hasBaseInterfaceLoop(_, _, _, _)
hasBaseInterfaceLoop(m, baseType, name, seen) ==
    IF m.status # "ok" \/ baseType = NoNode THEN [m |-> m, r |-> FALSE]
    ELSE IF m.heap[baseType].name = name THEN [m |-> m, r |-> TRUE]
    ELSE IF <<baseType, m>> \in seen
    THEN [m |-> [m EXCEPT !.status = "hang",
                          !.walk = [baseType |-> baseType, name |-> name]],
          r |-> FALSE]
    ELSE Let([g \in {getTypeByName(m, m.heap[baseType].baseType)} |->
            hasBaseInterfaceLoop(g.m, g.r, name, seen \cup {<<baseType, m>>})])

hasBaseInterface(m, interfaceType, name) ==
    hasBaseInterfaceLoop(m, interfaceType, name, {})

RECURSIVE getContainingTypeForPath(_, _, _)
getContainingTypeForPath(m, parentType, path) ==
    IF Len(path) = 1 THEN [m |-> m, r |-> parentType]
    ELSE Let([propertyName \in {IF Len(path) = 0 THEN Undefined ELSE Head(path)} |->
         Let([p \in {getPropertyForType(m, parentType, propertyName)} |->
            IF p = 0
            THEN [m |-> addError(m, <<"Could not find property '">> \o propertyName
                                     \o <<"' on type '">> \o m.heap[parentType].name
                                     \o <<"'.">>),
                  r |-> NoNode]
            ELSE Let([rt \in {getReferencedType(m, m.heap[parentType].properties[p].type,
                                             CatNone)} |->
                    IF rt.m.status # "ok" \/ rt.r = UndefinedType
                    THEN [m |-> rt.m, r |-> NoNode]
                    ELSE IF KindOf(rt.m, rt.r) \notin ObjectTypes
                    THEN [m |-> addError(rt.m, <<"Expected property '">> \o propertyName
                                                \o <<"' to reference an object type.">>),
                          r |-> NoNode]
                    ELSE getContainingTypeForPath(rt.m, rt.r.node, Tail(path))])])])

getContainingTypeForElement(m, resourceType, element) ==
    IF ~Truthy(element.path) THEN [m |-> m, r |-> NoNode]
    ELSE Let([parts \in {Split(element.path, ".")} |->
         LET resourceName == Head(parts)
         IN IF ~Truthy(resourceName) THEN [m |-> m, r |-> NoNode]
            ELSE Let([h \in {hasBaseInterface(m, resourceType, resourceName)} |->
                    IF h.m.status # "ok" THEN [m |-> h.m, r |-> NoNode]
                    ELSE IF ~h.r
                    THEN [m |-> addError(h.m, <<"Expected '">> \o resourceName
                                              \o <<"' to be a '">>
                                              \o h.m.heap[resourceType].name \o <<"'.">>),
                          r |-> NoNode]
                    ELSE getContainingTypeForPath(h.m, resourceType, Tail(parts))])])

\* r is the id of the document, Undefined for null.
getFileForType(m, name) ==
    IF name \notin DOMAIN files
    THEN [m |-> addError(m, <<"Unknown type '">> \o name \o <<"'.">>), r |-> Undefined]
    ELSE [m |-> referenceFile(m, name), r |-> name]

StringName == <<"s","t","r","i","n","g">>
XhtmlName == <<"x","h","t","m","l">>
AnyName == <<"a","n","y">>
ElementName == <<"E","l","e","m","e","n","t">>
BackboneElementName == <<"B","a","c","k","b","o","n","e","E","l","e","m","e","n","t">>

\* The codes of the open type element, in the order of the array.
OpenTypeCodes ==
    << <<"i","n","t","e","g","e","r">>,
       <<"d","e","c","i","m","a","l">>,
       <<"d","a","t","e","T","i","m","e">>,
       <<"d","a","t","e">>,
       <<"i","n","s","t","a","n","t">>,
       <<"t","i","m","e">>,
       <<"s","t","r","i","n","g">>,
       <<"u","r","i">>,
       <<"b","o","o","l","e","a","n">>,
       <<"c","o","d","e">>,
       <<"b","a","s","e","6","4","B","i","n","a","r","y">>,
       <<"C","o","d","i","n","g">>,
       <<"C","o","d","e","a","b","l","e","C","o","n","c","e","p","t">>,
       <<"A","t","t","a","c","h","m","e","n","t">>,
       <<"I","d","e","n","t","i","f","i","e","r">>,
       <<"Q","u","a","n","t","i","t","y">>,
       <<"R","a","n","g","e">>,
       <<"P","e","r","i","o","d">>,
       <<"R","a","t","i","o">>,
       <<"H","u","m","a","n","N","a","m","e">>,
       <<"A","d","d","r","e","s","s">>,
       <<"C","o","n","t","a","c","t","P","o","i","n","t">>,
       <<"T","i","m","i","n","g">>,
       <<"S","i","g","n","a","t","u","r","e">>,
       <<"R","e","f","e","r","e","n","c","e">> >>

\* const openTypeElement: the type options a wildcard stands for.
openTypeElement ==
    [i \in DOMAIN OpenTypeCodes |-> [code |-> OpenTypeCodes[i], profile |-> Undefined]]

\* The for .. of loop of getTypeReferences.  types is the array the loop
\* iterates: the array typeElements named when the loop began.  typeElements
\* is the local variable: the wildcard branch rebinds it to a new, longer
\* array (concat), which the running iteration never reads, so the
\* open-type options are never visited.  r.isNull is a null return.
RECURSIVE getTypeReferencesLoop(_, _, _, _, _)
getTypeReferencesLoop(m, types, typeElements, i, acc) ==
    IF m.status # "ok" THEN [m |-> m, r |-> [isNull |-> TRUE, refs |-> <<>>]]
    ELSE IF i > Len(types) THEN [m |-> m, r |-> [isNull |-> FALSE, refs |-> acc]]
    ELSE LET typeElement == types[i]
         IN IF ~Truthy(typeElement.code)
            THEN [m |-> addError(m, <<"Missing type name.">>),
                  r |-> [isNull |-> TRUE, refs |-> <<>>]]
            ELSE IF typeElement.code = <<"*">>
            THEN getTypeReferencesLoop(m, types, typeElements \o openTypeElement,
                                       i + 1, acc)
            ELSE Let([typeName \in {IF typeElement.code = XhtmlName THEN StringName
                                 ELSE typeElement.code} |->
                 Let([f \in {IF typeElement.code = XhtmlName THEN [m |-> m, r |-> StringName]
                          ELSE getFileForType(m, typeElement.code)} |->
                    IF f.m.status # "ok" \/ f.r = Undefined
                    THEN [m |-> f.m, r |-> [isNull |-> TRUE, refs |-> <<>>]]
                    ELSE IF Truthy(typeElement.profile)
                    THEN Let([p \in {getResourceNameFromProfile(f.m, typeElement.profile)} |->
                         LET m2 == IF Truthy(p.r) /\ p.r # AnyName
                                   THEN IF p.r \notin DOMAIN files
                                        THEN addError(p.m, <<"Unknown profile '">> \o p.r
                                                           \o <<"'.">>)
                                        ELSE referenceFile(p.m, p.r)
                                   ELSE p.m
                             ref == IF Truthy(p.r)
                                    THEN [createTypeReference(typeName) EXCEPT !.binding = p.r]
                                    ELSE createTypeReference(typeName)
                         IN getTypeReferencesLoop(m2, types, typeElements, i + 1,
                                                  Append(acc, ref))])
                    ELSE getTypeReferencesLoop(f.m, types, typeElements, i + 1,
                                               Append(acc, createTypeReference(typeName)))])])

getTypeReferences(m, element) ==
    IF ~element.hasType THEN [m |-> m, r |-> [isNull |-> TRUE, refs |-> <<>>]]
    ELSE getTypeReferencesLoop(m, element.type, element.type, 1, <<>>)

BadRequestIntentUrl ==
    <<"h","t","t","p",":","/","/","b","u","i","l","d",".","f","h","i","r",".",
      "o","r","g","/","v","a","l","u","e","s","e","t","-","r","e","q","u","e",
      "s","t","-","i","n","t","e","n","t",".","h","t","m","l">>
RequestIntentUrl ==
    <<"h","t","t","p",":","/","/","h","l","7",".","o","r","g","/","f","h","i","r",
      "/","V","a","l","u","e","S","e","t","/","r","e","q","u","e","s","t","-",
      "i","n","t","e","n","t">>

\* The id of the document, Undefined when there is none.
getValueSetFile(url0) ==
    Let([url \in {IF url0 = BadRequestIntentUrl THEN RequestIntentUrl ELSE url0} |->
       IF url \in DOMAIN files THEN url
       ELSE Let([parts \in {Split(url, "/")} |->
            LET spliced == SubSeq(parts, 1, Len(parts) - 1) \o <<<<"v","s">>>>
                           \o <<Last(parts)>>
            IN Let([withVs \in {Join(spliced, "/")} |->
               IF withVs \in DOMAIN files THEN withVs ELSE Undefined])])])

isExampleBinding(binding) == binding.strength = "example"

ExampleCopyright == <<"This is an example set">>

isApparentExampleValueSet(file) == file.copyright = ExampleCopyright

\* r is the name of the bound type, Undefined for null and undefined.
getBindingReference(m, element) ==
    LET reference == element.binding.reference
    IN IF ~Truthy(reference) THEN [m |-> m, r |-> Undefined]
       ELSE Let([bindingTypeFile \in {getValueSetFile(reference)} |->
               IF bindingTypeFile = Undefined
               THEN [m |-> addError(m, <<"Unknown binding reference '">> \o reference
                                        \o <<"'.">>),
                     r |-> Undefined]
               ELSE IF isApparentExampleValueSet(files[bindingTypeFile])
               THEN [m |-> m, r |-> Undefined]
               ELSE LET m1 == IF ~Truthy(m.fileState[bindingTypeFile].symbol)
                              THEN [m EXCEPT !.fileState[bindingTypeFile].symbol =
                                                 pascalCase(element.path)]
                              ELSE m
                    IN Let([m2 \in {referenceFile(m1, bindingTypeFile)} |->
                       IF m2.status # "ok" THEN [m |-> m2, r |-> Undefined]
                       ELSE IF m2.fileState[bindingTypeFile].type = NoNode
                       THEN \* bindingTypeFile.type.name with no type
                            [m |-> Throw(m2, "TypeError"), r |-> Undefined]
                       ELSE [m |-> m2,
                             r |-> m2.heap[m2.fileState[bindingTypeFile].type].name]])])

createSubType(m, element, baseType) ==
    Let([subTypeName \in {pascalCase(element.path)} |->
    LET subType == [createInterfaceType(subTypeName, CatSubType) EXCEPT
                       !.description = element.short, !.baseType = baseType]
    IN Let([a \in {Alloc(m, subType)} |->
       [m |-> addTypeToResults(a.m, a.r), r |-> createTypeReference(subTypeName)]])])

\* checked is the set of the types pushed onto the array checked, which the
\* recursive calls share.
RECURSIVE findTypeOfFirstProperty(_, _, _, _)
RECURSIVE findTypeOfFirstPropertyLoop(_, _, _, _, _)
findTypeOfFirstProperty(m, type, name, checked) ==
    IF type \in checked THEN [m |-> m, r |-> UndefinedType, checked |-> checked]
    ELSE findTypeOfFirstPropertyLoop(m, type, name, checked \cup {type}, 1)

findTypeOfFirstPropertyLoop(m, type, name, checked, i) ==
    IF m.status # "ok" \/ i > Len(m.heap[type].properties)
    THEN [m |-> m, r |-> UndefinedType, checked |-> checked]
    ELSE LET property == m.heap[type].properties[i]
         IN IF property.name = name
            THEN [m |-> m, r |-> property.type, checked |-> checked]
            ELSE Let([rt \in {getReferencedType(m, property.type, CatSubType)} |->
                    IF rt.m.status = "ok" /\ rt.r # UndefinedType
                       /\ KindOf(rt.m, rt.r) \in ObjectTypes
                    THEN Let([match \in {findTypeOfFirstProperty(rt.m, rt.r.node, name,
                                                              checked)} |->
                            IF match.r # UndefinedType THEN match
                            ELSE findTypeOfFirstPropertyLoop(match.m, type, name,
                                                             match.checked, i + 1)])
                    ELSE findTypeOfFirstPropertyLoop(rt.m, type, name, checked, i + 1)])

\* r is UndefinedType for a null or undefined return.
getPropertyTypeForElement(m, rootType, element) ==
    LET Wrap(x) ==
            [m |-> x.m,
             r |-> IF x.m.status # "ok" THEN UndefinedType
                   ELSE IF element.max # "1" THEN createArrayType(x.r) ELSE x.r]
    IN IF Truthy(element.contentReference)
       THEN IF element.contentReference[1] # "#"
            THEN [m |-> addError(m, <<"Expected content reference '">>
                                     \o element.contentReference
                                     \o <<"' to start with #.">>),
                  r |-> UndefinedType]
            ELSE Let([f \in {findTypeOfFirstProperty(
                              m, rootType, getPropertyName(element.contentReference), {})} |->
                 Let([rt \in {IF f.m.status # "ok" THEN [m |-> f.m, r |-> UndefinedType]
                           ELSE getReferencedType(f.m, f.r, CatNone)} |->
                    IF rt.m.status # "ok" THEN [m |-> rt.m, r |-> UndefinedType]
                    ELSE IF rt.r = UndefinedType
                    THEN [m |-> addError(rt.m, <<"Could not resolve content reference '">>
                                               \o element.contentReference \o <<"'.">>),
                          r |-> UndefinedType]
                    ELSE Let([m2 \in {IF KindOf(rt.m, rt.r) # "InterfaceType"
                                   THEN addError(rt.m,
                                       <<"Expected content reference to resolve to an interface type.">>)
                                   ELSE rt.m} |->
                            Wrap([m |-> m2, r |-> createTypeReference(NameOf(m2, rt.r))])])])])
       ELSE Let([tr \in {getTypeReferences(m, element)} |->
            LET refs == tr.r.refs
            IN Let([typed \in {IF tr.m.status # "ok" THEN [m |-> tr.m, r |-> UndefinedType]
                    ELSE IF tr.r.isNull \/ Len(refs) = 0
                    THEN [m |-> addError(tr.m, <<"Expected type for ">> \o element.path
                                               \o <<".">>),
                          r |-> UndefinedType]
                    ELSE IF Len(refs) = 1
                    THEN IF refs[1].name = ElementName
                         THEN createSubType(tr.m, element, ElementName)
                         ELSE IF refs[1].name = BackboneElementName
                         THEN createSubType(tr.m, element, BackboneElementName)
                         ELSE [m |-> tr.m, r |-> refs[1]]
                    ELSE [m |-> tr.m, r |-> createUnionType(refs)]} |->
            LET bound ==
                    IF typed.m.status = "ok" /\ element.hasBinding
                       /\ ~isExampleBinding(element.binding)
                    THEN Let([b \in {getBindingReference(typed.m, element)} |->
                            IF b.m.status # "ok" \/ ~Truthy(b.r)
                            THEN [m |-> b.m, r |-> typed.r]
                            ELSE IF typed.r = UndefinedType
                            THEN \* elementType.kind with elementType undefined
                                 [m |-> Throw(b.m, "TypeError"), r |-> UndefinedType]
                            ELSE IF typed.r.kind # "TypeReference"
                            THEN [m |-> addError(b.m, <<"Expected type reference">>),
                                  r |-> typed.r]
                            ELSE [m |-> b.m, r |-> [typed.r EXCEPT !.binding = b.r]]])
                    ELSE typed
            IN Wrap(bound)])])

combinePropertyNameWithType(propertyName, typeName) ==
    ReplaceFirst(propertyName, <<"[","x","]">>, pascalCase(typeName))

\* addProperty with element and containingType in scope: it pushes the
\* property onto containingType.properties.
addPropertyInScope(m, containingType, element, name, propertyType, optional) ==
    [m EXCEPT !.heap[containingType].properties =
        Append(@, [name |-> name, description |-> element.short,
                   type |-> propertyType,
                   optional |-> IF optional = "undefined" THEN element.min = 0
                                ELSE TRUE])]

\* The nested addProperty of processTypeDefinition.  It is declared in the
\* body of processTypeDefinition, after the element loop, and reads element
\* and containingType, which the loop declares with const in its own
\* blocks (lines 683 and 696): they are not in scope where addProperty is
\* declared, so building the property raises a ReferenceError at
\* element.short, before anything is pushed.
addProperty(m, containingType, element, name, propertyType, optional) ==
    Throw(m, "ReferenceError")

\* The loop over typeReferences of a polymorphic element.  lastProperty is
\* the property pushed last onto containingType.properties.
RECURSIVE polymorphicLoop(_, _, _, _, _, _, _)
polymorphicLoop(m, containingType, element, propertyName, typeReferences, j, lastTypeReferenceName) ==
    IF m.status # "ok" \/ j > Len(typeReferences) THEN m
    ELSE LET typeReference == typeReferences[j]
             k == Len(m.heap[containingType].properties)
         IN IF lastTypeReferenceName = typeReference.name
            THEN LET lastType == m.heap[containingType].properties[k].type
                     union == IF lastType.kind = "UnionType"
                              THEN [lastType EXCEPT !.types = Append(@, typeReference)]
                              ELSE createUnionType(<<lastType, typeReference>>)
                 IN polymorphicLoop(
                        [m EXCEPT !.heap[containingType].properties[k].type = union],
                        containingType, element, propertyName, typeReferences, j + 1,
                        lastTypeReferenceName)
            ELSE polymorphicLoop(
                     addProperty(m, containingType, element,
                                 combinePropertyNameWithType(propertyName,
                                                             typeReference.name),
                                 typeReference, "true"),
                     containingType, element, propertyName, typeReferences, j + 1,
                     typeReference.name)

\* propertyName.length > 3 && propertyName.indexOf("[x]") === length - 3
IsPolymorphicName(propertyName) ==
    /\ Len(propertyName) > 3
    /\ IndexOf(propertyName, <<"[","x","]">>) = Len(propertyName) - 2

\* One pass of the element loop of processTypeDefinition.  ret says that
\* the pass ended in a return statement.
processElement(m, type, element) ==
    IF IndexOfChar(element.path, ".") = 0
    THEN [m |-> [m EXCEPT !.heap[type].description = element.short], ret |-> FALSE]
    ELSE Let([propertyName \in {getPropertyName(element.path)} |->
            IF ~Truthy(propertyName)
            THEN \* the argument i of addError is not declared: ReferenceError
                 [m |-> Throw(m, "ReferenceError"), ret |-> TRUE]
            ELSE Let([c \in {getContainingTypeForElement(m, type, element)} |->
                    IF c.m.status # "ok" THEN [m |-> c.m, ret |-> TRUE]
                    ELSE IF c.r = NoNode
                    THEN [m |-> addError(c.m,
                              <<"Error getting containing type for property '">>
                              \o propertyName \o <<"': ">>),
                          ret |-> TRUE]
                    ELSE IF IsPolymorphicName(propertyName)
                    THEN Let([tr \in {getTypeReferences(c.m, element)} |->
                            IF tr.m.status # "ok" THEN [m |-> tr.m, ret |-> TRUE]
                            ELSE IF tr.r.isNull
                            THEN [m |-> addError(tr.m, <<"No types specified for '">>
                                                       \o propertyName \o <<"'.">>),
                                  ret |-> TRUE]
                            ELSE [m |-> polymorphicLoop(tr.m, c.r, element, propertyName,
                                                        tr.r.refs, 1, <<>>),
                                  ret |-> FALSE]])
                    ELSE IF element.max # "0"
                    THEN Let([pt \in {getPropertyTypeForElement(c.m, type, element)} |->
                            IF pt.m.status # "ok" THEN [m |-> pt.m, ret |-> TRUE]
                            ELSE IF pt.r = UndefinedType
                            THEN [m |-> addError(pt.m,
                                      <<"Error getting type for property '">>
                                      \o propertyName \o <<"'.">>),
                                  ret |-> TRUE]
                            ELSE [m |-> addProperty(pt.m, c.r, element, propertyName,
                                                    pt.r, "undefined"),
                                  ret |-> FALSE]])
                    ELSE [m |-> c.m, ret |-> FALSE]])])

RECURSIVE elementLoop(_, _, _, _)
elementLoop(m, type, elements, i) ==
    IF m.status # "ok" THEN [m |-> m, ret |-> TRUE]
    ELSE IF i > Len(elements) THEN [m |-> m, ret |-> FALSE]
    ELSE Let([e \in {processElement(m, type, elements[i])} |->
            IF e.ret THEN e ELSE elementLoop(e.m, type, elements, i + 1)])

ResourceName == <<"R","e","s","o","u","r","c","e">>
ResourceTypeName == <<"r","e","s","o","u","r","c","e","T","y","p","e">>
FhirCommentsName == <<"f","h","i","r","_","c","o","m","m","e","n","t","s">>
CodeName == <<"c","o","d","e">>

\* The two backfills at the end of processTypeDefinition.
backfill(m, type) ==
    LET name == m.heap[type].name
    IN Let([m1 \in {IF name = ResourceName /\ getProperty(m, type, ResourceTypeName) = 0
              THEN [m EXCEPT !.heap[type].properties =
                        <<[name |-> ResourceTypeName,
                           description |-> <<"The type of the resource.">>,
                           type |-> createTypeReference(CodeName),
                           optional |-> TRUE]>> \o @]
              ELSE m} |->
       IF name = ElementName /\ getProperty(m1, type, FhirCommentsName) = 0
       THEN [m1 EXCEPT !.heap[type].properties =
                <<[name |-> FhirCommentsName,
                   description |-> <<"Content that would be comments in an XML.">>,
                   type |-> createArrayType(createTypeReference(StringName)),
                   optional |-> TRUE]>> \o @]
       ELSE m1])

\* file.type = node, with its entry in the history.
SetFileType(m, id, n) ==
    Logged([m EXCEPT !.fileState[id].type = n], "type", <<id, n>>)

processTypeDefinition(m, id) ==
    LET content == files[id]
    IN IF ~Truthy(content.id) THEN m
       ELSE
       Let([a \in {Alloc(m, createInterfaceType(
                        content.id,
                        IF isResourceDefinition(content) THEN CatResource
                        ELSE CatDataType))} |->
       LET type == a.r
       IN Let([m1 \in {SetFileType(a.m, id, type)} |->
       Let([b \in {IF content.baseDefinition # Undefined
                THEN getResourceNameFromProfile(m1, content.baseDefinition)
                ELSE [m |-> m1, r |-> Undefined]} |->
       Let([m2 \in {IF content.baseDefinition # Undefined
                 THEN [b.m EXCEPT !.heap[type].baseType = b.r]
                 ELSE b.m} |->
          IF Truthy(b.r) /\ b.r \notin DOMAIN files
          THEN addError(m2, <<"Unknown base type '">> \o b.r \o <<"'.">>)
          ELSE Let([m3 \in {IF Truthy(b.r) THEN referenceFile(m2, b.r) ELSE m2} |->
                  IF m3.status # "ok" THEN m3
                  ELSE IF ~content.hasDifferential
                  THEN \* content.differential.element with no differential
                       Throw(m3, "TypeError")
                  ELSE Let([l \in {elementLoop(m3, type, content.differential, 1)} |->
                          IF l.ret THEN l.m ELSE backfill(l.m, type)])])])])])])

PrimitiveMarker == <<"P","r","i","m","i","t","i","v","e">>

isPrimitive(file) ==
    /\ file.hasContent
    /\ file.hasDifferential
    /\ \E i \in 1..Len(file.differential) :
          /\ Truthy(file.differential[i].short)
          /\ IndexOf(file.differential[i].short, PrimitiveMarker) # 0

processPrimitive(m, id) ==
    LET content == files[id]
        elements == content.differential
        Hits == {i \in 1..Len(elements) : elements[i].path = content.id}
    IN Let([description \in {IF Hits = {} THEN Undefined
                       ELSE elements[CHOOSE i \in Hits : \A j \in Hits : j <= i].definition} |->
    Let([intrinsicType \in {getIntrinsicType(content.id)} |->
    LET m1 == IF ~Truthy(intrinsicType)
              THEN addError(m, <<"Unknown primitive type '">> \o content.id \o <<"'.">>)
              ELSE m
    IN Let([a \in {Alloc(m1, [createPrimitiveType(content.id, intrinsicType) EXCEPT
                           !.description = description])} |->
       SetFileType(a.m, id, a.r)])])])

processType(m, id) ==
    IF isPrimitive(files[id]) THEN processPrimitive(m, id)
    ELSE processTypeDefinition(m, id)

processResource(m, id) == processTypeDefinition(m, id)

processStructureDefinition(m, id) ==
    LET kind == files[id].kind
    IN IF kind = "resource" THEN processResource(m, id)
       ELSE IF kind \in {"constraint", "datatype", "type", "complex-type",
                         "primitive-type"}
       THEN processType(m, id)
       ELSE addError(m, <<"Unknown content kind '", kind, "'.">>)

(***************************************************************************)
(* Value-set / code-system composer and the name allocator.  EnumMember    *)
(* objects and member arrays are shared between enum types by reference,   *)
(* so both live in heaps: m.enumMembers and m.enumArrays.                  *)
(***************************************************************************)
maxNameLength == 56

\* getMappedName with the words of "<" and "<=" the wrong way round.
getMappedNameSwapped(system, code) ==
    CASE code = <<"=">> -> <<"E","q","u","a","l","s">>
      [] code = <<"<">> ->
            <<"L","e","s","s","T","h","a","n","O","r","E","q","u","a","l">>
      [] code = <<"<","=">> -> <<"L","e","s","s","T","h","a","n">>
      [] code = <<">">> -> <<"G","r","e","a","t","e","r","T","h","a","n">>
      [] code = <<">","=">> ->
            <<"G","r","e","a","t","e","r","T","h","a","n","O","r","E","q","u","a","l">>
      [] OTHER -> Undefined

getMappedName(system, code) ==
    CASE code = <<"=">> -> <<"E","q","u","a","l","s">>
      [] code = <<"<">> -> <<"L","e","s","s","T","h","a","n">>
      [] code = <<"<","=">> ->
            <<"L","e","s","s","T","h","a","n","O","r","E","q","u","a","l">>
      [] code = <<">">> -> <<"G","r","e","a","t","e","r","T","h","a","n">>
      [] code = <<">","=">> ->
            <<"G","r","e","a","t","e","r","T","h","a","n","O","r","E","q","u","a","l">>
      [] OTHER -> Undefined

\* definitionExtension is the valueString of the concept's valueset-definition
\* extension (getExtensionValueString / getExtension), Undefined without one.
getEnumMemberDescription(concept) ==
    IF Truthy(concept.definition) THEN concept.definition
    ELSE IF Truthy(concept.definitionExtension) THEN concept.definitionExtension
    ELSE IF Truthy(concept.display) /\ IndexOfChar(concept.display, " ") # 0
    THEN concept.display
    ELSE Undefined

\* getEnumMemberName that tries the code before the display text.
getEnumMemberNameCodeFirst(m, system, concept) ==
    Let([mapped \in {getMappedName(system, concept.code)} |->
    Let([display \in {IF Truthy(concept.display) THEN Trim(concept.display)
                   ELSE concept.display} |->
    LET code == concept.code
    IN Let([description0 \in {getEnumMemberDescription(concept)} |->
    Let([description \in {IF Truthy(description0) THEN Trim(description0) ELSE description0} |->
    Let([name \in {IF Truthy(mapped) THEN mapped
                ELSE IF Truthy(code) /\ ~startsWithNumber(code) THEN code
                ELSE IF Truthy(display) /\ Len(display) < maxNameLength
                THEN ReplaceFirst(concept.display, <<"*">>, <<"S","t","a","r">>)
                ELSE IF Truthy(description) /\ Len(description) < maxNameLength
                THEN description
                ELSE code} |->
       IF ~Truthy(name)
       THEN [m |-> addError(m, <<"Unable to determine name for value set concept.">>),
             r |-> Undefined]
       ELSE [m |-> m, r |-> formatName(name)]])])])])])

\* r is Undefined for null.
getEnumMemberName(m, system, concept) ==
    Let([mapped \in {getMappedName(system, concept.code)} |->
    Let([display \in {IF Truthy(concept.display) THEN Trim(concept.display)
                   ELSE concept.display} |->
    LET code == concept.code
    IN Let([description0 \in {getEnumMemberDescription(concept)} |->
    Let([description \in {IF Truthy(description0) THEN Trim(description0) ELSE description0} |->
    Let([name \in {IF Truthy(mapped) THEN mapped
                ELSE IF Truthy(display) /\ Len(display) < maxNameLength
                THEN ReplaceFirst(concept.display, <<"*">>, <<"S","t","a","r">>)
                ELSE IF Truthy(code) /\ ~startsWithNumber(code) THEN code
                ELSE IF Truthy(description) /\ Len(description) < maxNameLength
                THEN description
                ELSE code} |->
       IF ~Truthy(name)
       THEN [m |-> addError(m, <<"Unable to determine name for value set concept.">>),
             r |-> Undefined]
       ELSE [m |-> m, r |-> formatName(name)]])])])])])

getAlternateName(member) ==
    Let([name \in {IF Truthy(member.value) /\ ~startsWithNumber(member.value)
                THEN member.value
                ELSE IF Truthy(member.description)
                        /\ Len(member.description) < maxNameLength
                THEN member.description
                ELSE Undefined} |->
       IF Truthy(name) THEN formatName(name) ELSE Undefined])

\* The first member of the array with the name; 0 for null.
getDuplicate(m, memberToAdd, members) ==
    LET arr == m.enumArrays[members]
        Hits == {i \in 1..Len(arr) :
                    m.enumMembers[arr[i]].name = m.enumMembers[memberToAdd].name}
    IN IF Hits = {} THEN 0 ELSE arr[CHOOSE i \in Hits : \A j \in Hits : i <= j]

areEnumMembersEqual(m, member1, member2) ==
    LET a == m.enumMembers[member1]
        b == m.enumMembers[member2]
    IN /\ a.name = b.name
       /\ a.value = b.value
       /\ a.description = b.description
       /\ a.display = b.display
       /\ a.system = b.system
       /\ a.caseSensitive = b.caseSensitive

\* Number to decimal string.
RECURSIVE NumberToString(_)
NumberToString(n) ==
    LET digits == <<"0","1","2","3","4","5","6","7","8","9">>
    IN IF n < 10 THEN <<digits[n + 1]>>
       ELSE NumberToString(n \div 10) \o <<digits[(n % 10) + 1]>>

\* The do .. while loop of adjustMemberName.
RECURSIVE numericSuffixLoop(_, _, _, _, _)
numericSuffixLoop(m, memberToAdd, members, originalName, num) ==
    Let([m1 \in {[m EXCEPT !.enumMembers[memberToAdd].name =
                   originalName \o <<"_">> \o NumberToString(num)]} |->
       IF getDuplicate(m1, memberToAdd, members) # 0
       THEN numericSuffixLoop(m1, memberToAdd, members, originalName, num + 1)
       ELSE m1])

\* r: whether the member is to be pushed.
adjustMemberName(m, memberToAdd, members) ==
    Let([duplicateMember \in {getDuplicate(m, memberToAdd, members)} |->
       IF duplicateMember = 0 THEN [m |-> m, r |-> TRUE]
       ELSE IF areEnumMembersEqual(m, duplicateMember, memberToAdd)
       THEN [m |-> m, r |-> FALSE]
       ELSE
       LET originalName == m.enumMembers[memberToAdd].name
       IN Let([alternate \in {getAlternateName(m.enumMembers[memberToAdd])} |->
       Let([m1 \in {IF Truthy(alternate)
                 THEN [m EXCEPT !.enumMembers[memberToAdd].name = alternate]
                 ELSE m} |->
       Let([alternate2 \in {getAlternateName(m1.enumMembers[duplicateMember])} |->
       Let([m2 \in {IF Truthy(alternate2)
                 THEN [m1 EXCEPT !.enumMembers[duplicateMember].name = alternate2]
                 ELSE m1} |->
          IF Truthy(alternate) /\ getDuplicate(m1, memberToAdd, members) = 0
          THEN [m |-> m1, r |-> TRUE]
          ELSE IF Truthy(alternate) /\ Truthy(alternate2)
                  /\ getDuplicate(m2, memberToAdd, members) = 0
          THEN [m |-> m2, r |-> TRUE]
          ELSE [m |-> numericSuffixLoop(IF Truthy(alternate) THEN m2 ELSE m1,
                                        memberToAdd, members, originalName, 1),
                r |-> TRUE]])])])])])

\* A new array holding the given members: r is its id.
AllocArray(m, mids) ==
    [m |-> [m EXCEPT !.enumArrays = Append(@, mids)], r |-> Len(m.enumArrays) + 1]

\* The loop of processConcepts: acc is the local array members.
RECURSIVE processConceptsLoop(_, _, _, _, _, _)
processConceptsLoop(m, concepts, caseSensitive, system, i, acc) ==
    IF i > Len(concepts) THEN [m |-> m, r |-> acc]
    ELSE LET concept == concepts[i]
         IN Let([n \in {getEnumMemberName(m, system, concept)} |->
         Let([display \in {IF Truthy(concept.display) THEN Trim(concept.display)
                        ELSE Undefined} |->
         LET member == [name |-> n.r,
                        description |-> getEnumMemberDescription(concept),
                        value |-> concept.code,
                        system |-> system,
                        caseSensitive |-> caseSensitive,
                        display |-> IF Truthy(display) THEN display ELSE Undefined]
             m1 == [n.m EXCEPT !.enumMembers = Append(@, member)]
         IN processConceptsLoop(m1, concepts, caseSensitive, system, i + 1,
                                Append(acc, Len(m1.enumMembers)))])])

\* r is the id of the new member array.
processConcepts(m, hasConcepts, concepts, caseSensitive, system) ==
    Let([l \in {IF hasConcepts
             THEN processConceptsLoop(m, concepts, caseSensitive, system, 1, <<>>)
             ELSE [m |-> m, r |-> <<>>]} |->
       AllocArray(l.m, l.r)])

getNameFromSystemUrl(url) == formatName(Last(Split(url, "/")))

getEnumName(m, id) ==
    LET content == files[id]
        name0 == content.name
    IN Let([name \in {IF ~Truthy(name0) \/ IndexOfChar(name0, " ") # 0
                THEN m.fileState[id].symbol
                ELSE name0} |->
       IF ~Truthy(name) THEN getNameFromSystemUrl(content.id) ELSE formatName(name)])

processCodeSystem(m, id) ==
    LET content == files[id]
        name == getEnumName(m, id)
    IN Let([c \in {processConcepts(m, content.hasConcept, content.concept,
                             content.caseSensitive, content.url)} |->
    Let([a \in {Alloc(c.m, createEnumType(name, CatCodeSystem, content.description, c.r))} |->
       SetFileType(a.m, id, a.r)])])

processValueSetComposeInclude(m, include) ==
    processConcepts(m, include.hasConcept, include.concept, TRUE, include.system)

\* (file.type as EnumType).members: 0 (undefined) for a type that is no enum.
MembersOf(m, id) == m.heap[m.fileState[id].type].members

\* r is the id of the resulting member array, 0 for undefined.
substituteCodesFromOriginalSystem(m, url, members) ==
    Let([file \in {getValueSetFile(url)} |->
       IF file = Undefined THEN [m |-> m, r |-> members]
       ELSE Let([m1 \in {processFile(m, file)} |->
               IF m1.status # "ok" \/ m1.fileState[file].type = NoNode
               THEN [m |-> m1, r |-> members]
               ELSE IF Len(m1.enumArrays[members]) = 0
               THEN [m |-> m1, r |-> MembersOf(m1, file)]
               ELSE IF MembersOf(m1, file) = 0
               THEN \* undefined.filter
                    [m |-> Throw(m1, "TypeError"), r |-> 0]
               ELSE LET src == m1.enumArrays[MembersOf(m1, file)]
                        inl == m1.enumArrays[members]
                        Keep(mid) == \E k \in 1..Len(inl) :
                                        m1.enumMembers[inl[k]].value
                                            = m1.enumMembers[mid].value
                    IN AllocArray(m1, SelectSeq(src, Keep))])])

enumMemberIsA(m, member, code) ==
    \* no member has a parent: nothing in the program sets it
    m.enumMembers[member].value = code

\* The forEach of processFilter: it visits the first n members of the
\* array from, n being its length when the loop started.
RECURSIVE processFilterLoop(_, _, _, _, _, _)
processFilterLoop(m, from, n, code, members, i) ==
    IF m.status # "ok" \/ i > n \/ i > Len(m.enumArrays[from]) THEN m
    ELSE LET member == m.enumArrays[from][i]
         IN IF enumMemberIsA(m, member, code)
            THEN IF members = 0
                 THEN \* members.push with members undefined
                      Throw(m, "TypeError")
                 ELSE processFilterLoop(
                          [m EXCEPT !.enumArrays[members] = Append(@, member)],
                          from, n, code, members, i + 1)
            ELSE processFilterLoop(m, from, n, code, members, i + 1)

processFilter(m, url, filter, members) ==
    Let([file \in {getValueSetFile(url)} |->
       IF file = Undefined THEN m
       ELSE IF filter.op # "is-a"
       THEN addError(m, <<"Do not know how to process filter operation '",
                          filter.op, "'.">>)
       ELSE IF filter.property # "concept"
       THEN addError(m, <<"Do not know how to process filter property '",
                          filter.property, "'.">>)
       ELSE Let([m1 \in {processFile(m, file)} |->
               IF m1.status # "ok" \/ m1.fileState[file].type = NoNode THEN m1
               ELSE IF MembersOf(m1, file) = 0
               THEN \* undefined.forEach
                    Throw(m1, "TypeError")
               ELSE processFilterLoop(m1, MembersOf(m1, file),
                                      Len(m1.enumArrays[MembersOf(m1, file)]),
                                      filter.value, members, 1)])])

\* r is the id of the returned member array, 0 for undefined, and fresh
\* says that it is a new empty array.
processImport(m, url) ==
    Let([file \in {getValueSetFile(url)} |->
       IF file = Undefined
       THEN [m |-> addError(m, <<"Unable to process import statement for '">> \o url
                                \o <<"' because value set with id '">> \o url
                                \o <<"' could not be found.">>),
             r |-> 0, fresh |-> TRUE]
       ELSE Let([m1 \in {processFile(m, file)} |->
               IF m1.status # "ok" \/ m1.fileState[file].type = NoNode
               THEN [m |-> m1, r |-> 0, fresh |-> TRUE]
               ELSE [m |-> m1, r |-> MembersOf(m1, file), fresh |-> FALSE]])])

\* The forEach of combine over the array members (n: its length when the
\* loop started), folding each member into the value set's own array.
RECURSIVE combineLoop(_, _, _, _, _)
combineLoop(m, own, members, n, i) ==
    IF m.status # "ok" \/ i > n \/ i > Len(m.enumArrays[members]) THEN m
    ELSE LET member == m.enumArrays[members][i]
         IN Let([adj \in {adjustMemberName(m, member, own)} |->
         LET m1 == IF adj.r THEN [adj.m EXCEPT !.enumArrays[own] = Append(@, member)]
                   ELSE adj.m
         IN combineLoop(m1, own, members, n, i + 1)])

\* combine of processValueSet; members = 0 is a falsy or empty argument.
combine(m, own, members) ==
    IF members = 0 THEN m
    ELSE combineLoop(m, own, members, Len(m.enumArrays[members]), 1)

RECURSIVE filterLoop(_, _, _, _, _)
filterLoop(m, system, filters, members, i) ==
    IF m.status # "ok" \/ i > Len(filters) THEN m
    ELSE filterLoop(processFilter(m, system, filters[i], members), system, filters,
                    members, i + 1)

RECURSIVE importLoop(_, _, _, _)
importLoop(m, own, imports, i) ==
    IF m.status # "ok" \/ i > Len(imports) THEN m
    ELSE Let([p \in {processImport(m, imports[i])} |->
            importLoop(IF p.fresh THEN p.m ELSE combine(p.m, own, p.r),
                       own, imports, i + 1)])

\* r is the id of the returned member array, 0 for an empty or undefined one.
processInclude(m, own, include) ==
    IF Truthy(include.system)
    THEN Let([c \in {processValueSetComposeInclude(m, include)} |->
         Let([s \in {substituteCodesFromOriginalSystem(c.m, include.system, c.r)} |->
         LET m1 == IF s.m.status = "ok" /\ include.hasFilter
                   THEN filterLoop(s.m, include.system, include.filter, s.r, 1)
                   ELSE s.m
         IN [m |-> m1, r |-> s.r]])])
    ELSE IF include.hasValueSet
    THEN [m |-> importLoop(m, own, include.valueSet, 1), r |-> 0]
    ELSE [m |-> m, r |-> 0]

RECURSIVE includeLoop(_, _, _, _)
includeLoop(m, own, includes, i) ==
    IF m.status # "ok" \/ i > Len(includes) THEN m
    ELSE Let([p \in {processInclude(m, own, includes[i])} |->
            includeLoop(IF p.m.status = "ok" THEN combine(p.m, own, p.r) ELSE p.m,
                        own, includes, i + 1)])

processValueSet(m, id) ==
    LET content == files[id]
    IN Let([arr \in {AllocArray(m, <<>>)} |->
    Let([a \in {Alloc(arr.m, createEnumType(getEnumName(m, id), CatValueSet,
                                         content.description, arr.r))} |->
    Let([m1 \in {SetFileType(a.m, id, a.r)} |->
       IF content.hasCompose THEN includeLoop(m1, arr.r, content.include, 1) ELSE m1])])])

(***************************************************************************)
(* Resolver driver: processFile, referenceFile.                            *)
(***************************************************************************)
\* processFile whose guard stops a document in progress (queued and not yet
\* processed) only, so that a processed document is processed again.
processFileInProgressOnly(m, id) ==
    LET file == m.fileState[id]
    IN IF (file.queued /\ ~file.processed) \/ ~files[id].hasContent THEN m
       ELSE LET oldFile == m.currentFile
            IN Let([m1 \in {Logged([m EXCEPT !.fileState[id].queued = TRUE,
                                       !.currentFile = id], "queued", id)} |->
            LET rt == files[id].resourceType
            IN Let([m2 \in {CASE rt = "ValueSet" -> processValueSet(m1, id)
                        [] rt = "StructureDefinition" -> processStructureDefinition(m1, id)
                        [] rt = "CodeSystem" -> processCodeSystem(m1, id)
                        [] OTHER -> addError(m1, <<"Unknown resource type '", rt, "'.">>)} |->
               IF m2.status # "ok" THEN m2
               ELSE Logged([m2 EXCEPT !.fileState[id].processed = TRUE,
                                      !.currentFile = oldFile], "processed", id)])])

\* processFile that makes the document the current one before it looks at
\* the document's flags, so that the early return leaves the cursor on it.
processFileCursorFirst(m, id) ==
    LET file == m.fileState[id]
    IN IF file.processed \/ file.queued \/ ~files[id].hasContent
       THEN [m EXCEPT !.currentFile = id]
       ELSE LET oldFile == m.currentFile
            IN Let([m1 \in {Logged([m EXCEPT !.fileState[id].queued = TRUE,
                                       !.currentFile = id], "queued", id)} |->
            LET rt == files[id].resourceType
            IN Let([m2 \in {CASE rt = "ValueSet" -> processValueSet(m1, id)
                        [] rt = "StructureDefinition" -> processStructureDefinition(m1, id)
                        [] rt = "CodeSystem" -> processCodeSystem(m1, id)
                        [] OTHER -> addError(m1, <<"Unknown resource type '", rt, "'.">>)} |->
               IF m2.status # "ok" THEN m2
               ELSE Logged([m2 EXCEPT !.fileState[id].processed = TRUE,
                                      !.currentFile = oldFile], "processed", id)])])

\* processFile that gives the document up when its visit appended an error:
\* the document is left Queued and the cursor is left on it.
processFileStopOnError(m, id) ==
    LET file == m.fileState[id]
    IN IF file.processed \/ file.queued \/ ~files[id].hasContent THEN m
       ELSE LET oldFile == m.currentFile
            IN Let([m1 \in {Logged([m EXCEPT !.fileState[id].queued = TRUE,
                                       !.currentFile = id], "queued", id)} |->
            LET rt == files[id].resourceType
            IN Let([m2 \in {CASE rt = "ValueSet" -> processValueSet(m1, id)
                        [] rt = "StructureDefinition" -> processStructureDefinition(m1, id)
                        [] rt = "CodeSystem" -> processCodeSystem(m1, id)
                        [] OTHER -> addError(m1, <<"Unknown resource type '", rt, "'.">>)} |->
               IF m2.status # "ok" \/ Len(m2.errors) > Len(m1.errors) THEN m2
               ELSE Logged([m2 EXCEPT !.fileState[id].processed = TRUE,
                                      !.currentFile = oldFile], "processed", id)])])

\* processFile that does not put the cursor back when the visit ends.
processFileKeepCursor(m, id) ==
    LET file == m.fileState[id]
    IN IF file.processed \/ file.queued \/ ~files[id].hasContent THEN m
       ELSE Let([m1 \in {Logged([m EXCEPT !.fileState[id].queued = TRUE,
                                       !.currentFile = id], "queued", id)} |->
            LET rt == files[id].resourceType
            IN Let([m2 \in {CASE rt = "ValueSet" -> processValueSet(m1, id)
                        [] rt = "StructureDefinition" -> processStructureDefinition(m1, id)
                        [] rt = "CodeSystem" -> processCodeSystem(m1, id)
                        [] OTHER -> addError(m1, <<"Unknown resource type '", rt, "'.">>)} |->
               IF m2.status # "ok" THEN m2
               ELSE Logged([m2 EXCEPT !.fileState[id].processed = TRUE],
                           "processed", id)])])

processFile(m, id) ==
    LET file == m.fileState[id]
    IN IF file.processed \/ file.queued \/ ~files[id].hasContent THEN m
       ELSE LET oldFile == m.currentFile
            IN Let([m1 \in {Logged([m EXCEPT !.fileState[id].queued = TRUE,
                                       !.currentFile = id], "queued", id)} |->
            LET rt == files[id].resourceType
            IN Let([m2 \in {CASE rt = "ValueSet" -> processValueSet(m1, id)
                        [] rt = "StructureDefinition" -> processStructureDefinition(m1, id)
                        [] rt = "CodeSystem" -> processCodeSystem(m1, id)
                        [] OTHER -> addError(m1, <<"Unknown resource type '", rt, "'.">>)} |->
               IF m2.status # "ok" THEN m2
               ELSE Logged([m2 EXCEPT !.fileState[id].processed = TRUE,
                                      !.currentFile = oldFile], "processed", id)])])

\* referenceFile without the test of the referenced flag: every call visits
\* (processFile returns at once on a visited document) and pushes the node.
referenceFileAgain(m, id) ==
    IF m.status # "ok" THEN m
    ELSE LET m1 == Logged([m EXCEPT !.fileState[id].referenced = TRUE],
                          "referenced", id)
         IN Let([m2 \in {processFile(m1, id)} |->
            IF m2.status # "ok" THEN m2
            ELSE Logged(IF m2.fileState[id].type # NoNode
                        THEN addTypeToResults(m2, m2.fileState[id].type)
                        ELSE m2,
                        "returned", id)])

referenceFile(m, id) ==
    IF m.status # "ok" \/ m.fileState[id].referenced THEN m
    ELSE LET m1 == Logged([m EXCEPT !.fileState[id].referenced = TRUE],
                          "referenced", id)
         IN Let([m2 \in {processFile(m1, id)} |->
            IF m2.status # "ok" THEN m2
            ELSE Logged(IF m2.fileState[id].type # NoNode
                        THEN addTypeToResults(m2, m2.fileState[id].type)
                        ELSE m2,
                        "returned", id)])

(***************************************************************************)
(* The Document Maps the model runs on: what the Document Loader           *)
(* (src/lib/reader.js) hands to processFiles.  Every document has an id,   *)
(* a filename and parsed content of one of the three categories.           *)
(***************************************************************************)
IdA == <<"A">>
IdB == <<"B">>
IdAB == <<"A","B">>
\* The name of a document that is in no map.
IdMissing == <<"M">>
IdValueSet == <<"h",":","/","V">>
IdCodeSystem == <<"h",":","/","S">>
\* The URL of a coding system that has no document.
UrlNoDocument == <<"h",":","/","T">>

Filename(id) == Last(Split(id, "/")) \o <<".","j","s","o","n">>

Profile(name) == HttpBase \o name

Element(path) ==
    [path |-> path, short |-> Undefined, definition |-> Undefined, min |-> 0,
     max |-> "1", hasType |-> FALSE, type |-> <<>>, contentReference |-> Undefined,
     hasBinding |-> FALSE,
     binding |-> [strength |-> "required", reference |-> Undefined]]

TypeOption(code) == [code |-> code, profile |-> Undefined]

Typed(path, codes) ==
    [Element(path) EXCEPT !.hasType = TRUE,
                          !.type = [i \in 1..Len(codes) |-> TypeOption(codes[i])]]

Document(id, resourceType) ==
    [id |-> id, filename |-> Filename(id), hasContent |-> TRUE,
     resourceType |-> resourceType, kind |-> "undefined",
     derivation |-> "undefined", baseDefinition |-> Undefined,
     hasDifferential |-> FALSE, differential |-> <<>>,
     name |-> Undefined, description |-> Undefined, copyright |-> Undefined,
     url |-> Undefined, caseSensitive |-> TRUE, hasConcept |-> FALSE,
     concept |-> <<>>, hasCompose |-> FALSE, include |-> <<>>]

StructureDefinition(id, kind, derivation, baseDefinition, hasDifferential, elements) ==
    [Document(id, "StructureDefinition") EXCEPT
        !.kind = kind, !.derivation = derivation,
        !.baseDefinition = baseDefinition,
        !.hasDifferential = hasDifferential,
        !.differential = IF hasDifferential
                         THEN <<[Element(id) EXCEPT !.short = <<"r">>]>> \o elements
                         ELSE <<>>]

PrimitiveDefinition(id) ==
    [Document(id, "StructureDefinition") EXCEPT
        !.kind = "primitive-type", !.derivation = "specialization",
        !.hasDifferential = TRUE,
        !.differential = <<[Element(id) EXCEPT
                               !.short = PrimitiveMarker \o <<" ","T","y","p","e">>,
                               !.definition = <<"d">>]>>]

Concept(code, display) ==
    [code |-> code, display |-> display, definition |-> Undefined,
     definitionExtension |-> Undefined]

Include(system) ==
    [system |-> system, hasConcept |-> FALSE, concept |-> <<>>,
     hasFilter |-> FALSE, filter |-> <<>>, hasValueSet |-> FALSE, valueSet |-> <<>>]

ValueSet(id, name, includes) ==
    [Document(id, "ValueSet") EXCEPT
        !.name = name, !.url = id, !.hasCompose = TRUE, !.include = includes]

CodeSystem(id, name, concepts) ==
    [Document(id, "CodeSystem") EXCEPT
        !.name = name, !.url = id, !.hasConcept = TRUE, !.concept = concepts]

SeqsUpTo(S, n) == UNION {[1..k -> S] : k \in 0..n}

\* The property elements a generated structure definition draws from.
ElementMenu(id) ==
    { \* a plain property of a primitive type
      Typed(id \o <<".","x">>, <<StringName>>),
      \* a property whose root segment names no type of the base chain
      Typed(<<"Z",".","y">>, <<StringName>>),
      \* a sub-type
      [Typed(id \o <<".","b">>, <<BackboneElementName>>) EXCEPT !.max = "*"],
      \* a path whose last segment is empty
      Typed(id \o <<".">>, <<StringName>>),
      \* a polymorphic property with two adjacent options of one type
      Typed(id \o <<".","v","[","x","]">>, <<StringName, StringName>>),
      \* a polymorphic property with options of two types
      Typed(id \o <<".","v","[","x","]">>, <<StringName, BackboneElementName>>) }

\* The documents of the structure-walker maps: A and B vary, AB is a
\* resource of its own, BackboneElement and string are what A and B use.
WalkerDocsA ==
    { StructureDefinition(IdA, "resource", "specialization", base, TRUE, elements) :
        base \in {Undefined, Profile(IdB), Profile(IdMissing)},
        elements \in SeqsUpTo(ElementMenu(IdA), MaxElements) }

WalkerDocsB ==
    { StructureDefinition(IdB, kd[1], kd[2], base, diff[1], diff[2]) :
        kd \in {<<"resource", "specialization">>, <<"resource", "constraint">>,
                <<"complex-type", "specialization">>},
        base \in {Undefined, Profile(IdA)},
        diff \in {<<TRUE, <<>>>>, <<FALSE, <<>>>>,
                  <<TRUE, <<Typed(<<"Z",".","y">>, <<StringName>>)>>>>} }
    \cup \* an entry of the map that has no parsed content
         { [Document(IdB, "undefined") EXCEPT !.hasContent = FALSE] }

FilesOf(docs) == [id \in {d.id : d \in docs} |-> CHOOSE d \in docs : d.id = id]

WalkerMaps ==
    { [files |-> FilesOf({a, b,
                          StructureDefinition(IdAB, "resource", "specialization",
                                              Undefined, TRUE, <<>>),
                          StructureDefinition(BackboneElementName, "complex-type",
                                              "specialization", Undefined, TRUE, <<>>),
                          PrimitiveDefinition(StringName)}),
       order |-> o] :
        a \in WalkerDocsA, b \in WalkerDocsB,
        o \in {<<IdA, IdB, IdAB, BackboneElementName, StringName>>,
               <<StringName, IdAB, IdB, IdA, BackboneElementName>>} }

\* The documents of the composer maps: resource A binds a property to the
\* value set, which composes from the code system.
MaxConcepts == 2

ConceptMenu ==
    { Concept(<<"a">>, <<"O","n">>), Concept(<<"b">>, <<"O","n">>),
      Concept(<<"c">>, <<"O","f","f">>) }

IncludeMenu ==
    { Include(IdCodeSystem),
      [Include(IdCodeSystem) EXCEPT !.hasConcept = TRUE,
                                   !.concept = <<Concept(<<"a">>, <<"O","n">>)>>],
      [Include(IdCodeSystem) EXCEPT
          !.hasFilter = TRUE,
          !.filter = <<[op |-> "is-a", property |-> "concept", value |-> <<"a">>]>>],
      [Include(UrlNoDocument) EXCEPT
          !.hasConcept = TRUE,
          !.concept = <<Concept(<<"a">>, <<"O","n">>), Concept(<<"b">>, <<"O","n">>)>>],
      [Include(Undefined) EXCEPT !.hasValueSet = TRUE, !.valueSet = <<IdValueSet>>] }

BoundElement(id, hasType) ==
    [Element(id \o <<".","c">>) EXCEPT
        !.hasType = hasType,
        !.type = IF hasType THEN <<TypeOption(StringName)>> ELSE <<>>,
        !.hasBinding = TRUE,
        !.binding = [strength |-> "required", reference |-> IdValueSet]]

\* The property element of resource A in the composer maps: bound to the
\* value set, with and without a type, or typed by the code system's id
\* and by a type that has no document.
ComposerElements ==
    { BoundElement(IdA, TRUE), BoundElement(IdA, FALSE),
      Typed(IdA \o <<".","c">>, <<IdCodeSystem, IdMissing>>) }

ComposerMaps ==
    { [files |-> FilesOf({StructureDefinition(IdA, "resource", "specialization",
                                              Undefined, TRUE, <<element>>),
                          PrimitiveDefinition(StringName),
                          ValueSet(IdValueSet, <<"V">>, includes),
                          CodeSystem(IdCodeSystem, name, concepts)}),
       order |-> <<IdA, StringName, IdValueSet, IdCodeSystem>>] :
        element \in ComposerElements,
        name \in {<<"S">>, IdA},
        includes \in SeqsUpTo(IncludeMenu, 1),
        concepts \in SeqsUpTo(ConceptMenu, MaxConcepts) }

\* The URL of a second coding system that has no document.
UrlOther == <<"h",":","/","U">>

ActiveCode == <<"a","c","t","i","v","e">>
ActiveDisplay == <<"A","c","t","i","v","e">>
ActiveOtherDisplay == <<"A","c","t","i","v","e"," ","(","O","t","h","e","r",")">>
LessOrEqualCode == <<"<","=">>

\* The concepts the name-allocator maps draw from.
AllocatorMenu ==
    { Concept(ActiveCode, ActiveDisplay), Concept(ActiveCode, ActiveOtherDisplay),
      Concept(LessOrEqualCode, ActiveDisplay),
      Concept(<<"a">>, <<"O","n">>), Concept(<<"b">>, <<"O","n">>),
      Concept(<<"o","n">>, <<"O","n">>), Concept(<<"b">>, <<"B">>) }

Concepts(system, concepts) ==
    [Include(system) EXCEPT !.hasConcept = TRUE, !.concept = concepts]

\* The documents of the name-allocator maps: the value set composes from
\* two includes whose systems have no document, the first with up to
\* MaxConcepts concepts and the second with at most one.
AllocatorMaps ==
    { [files |-> FilesOf({StructureDefinition(IdA, "resource", "specialization",
                                              Undefined, TRUE,
                                              <<BoundElement(IdA, TRUE)>>),
                          PrimitiveDefinition(StringName),
                          ValueSet(IdValueSet, <<"V">>,
                                   <<Concepts(UrlNoDocument, first)>>
                                   \o (IF second = <<>> THEN <<>>
                                       ELSE <<Concepts(UrlOther, second)>>))}),
       order |-> <<IdA, StringName, IdValueSet>>] :
        first \in SeqsUpTo(AllocatorMenu, MaxConcepts) \ {<<>>},
        second \in {<<>>} \cup {<<c>> : c \in AllocatorMenu} }

BooleanName == <<"b","o","o","l","e","a","n">>

\* The documents of the primitive maps: the document boolean, whose root
\* element's short text holds the marker, is of one of three kinds, and
\* resource A names it as its base type or as the type of a property.
PrimitiveMaps ==
    { [files |-> FilesOf({StructureDefinition(IdA, "resource", "specialization",
                                              base, TRUE, elements),
                          [PrimitiveDefinition(BooleanName) EXCEPT !.kind = kind]}),
       order |-> o] :
        base \in {Undefined, Profile(BooleanName)},
        elements \in {<<>>, <<Typed(IdA \o <<".","x">>, <<BooleanName>>)>>,
                      <<Typed(IdA \o <<".","x">>, <<BooleanName, IdMissing>>)>>},
        kind \in {"primitive-type", "datatype", "resource"},
        o \in {<<IdA, BooleanName>>, <<BooleanName, IdA>>} }

\* The document of one open-type code: a primitive where getIntrinsicType
\* knows the code, a complex type otherwise.
OpenTypeDocument(code) ==
    IF getIntrinsicType(code) # Undefined THEN PrimitiveDefinition(code)
    ELSE StructureDefinition(code, "complex-type", "specialization", Undefined, TRUE, <<>>)

\* Resource A with one property whose declared types hold the wildcard, in
\* a map that holds a document for every open-type code.
WildcardMaps ==
    { [files |-> FilesOf({StructureDefinition(IdA, "resource", "specialization", Undefined,
                                              TRUE, <<Typed(IdA \o <<".","x">>, codes)>>)}
                         \cup {OpenTypeDocument(code) : code \in Range(OpenTypeCodes)}),
       order |-> <<IdA>> \o OpenTypeCodes] :
        codes \in {<<<<"*">>>>, <<StringName, <<"*">>>>, <<<<"*">>, StringName>>} }

\* The filters of an include: the operator and property the composer knows
\* and one other of each.
FilterMenu ==
    { [op |-> o, property |-> p, value |-> <<"a">>] :
        o \in {"is-a", "="}, p \in {"concept", "code"} }

\* A value set whose one include names a system, with or without a document,
\* and carries one or two filters.
FilterMaps ==
    { [files |-> FilesOf({StructureDefinition(IdA, "resource", "specialization",
                                              Undefined, TRUE,
                                              <<BoundElement(IdA, TRUE)>>),
                          PrimitiveDefinition(StringName),
                          ValueSet(IdValueSet, <<"V">>,
                                   <<[Include(system) EXCEPT !.hasFilter = TRUE,
                                                             !.filter = filters]>>),
                          CodeSystem(IdCodeSystem, <<"S">>,
                                     <<Concept(<<"a">>, <<"O","n">>),
                                       Concept(<<"b">>, <<"O","f","f">>)>>)}),
       order |-> <<IdA, StringName, IdValueSet, IdCodeSystem>>] :
        system \in {IdCodeSystem, UrlNoDocument},
        filters \in SeqsUpTo(FilterMenu, 2) \ {<<>>} }

\* An element of document id that refers to the content of another element.
ContentReference(id, fragment) ==
    [Element(id \o <<".","r">>) EXCEPT !.contentReference = fragment]

\* Resource A whose last element carries a content reference: without "#",
\* to a property no element declares, to a sub-type property, and to a
\* property of a primitive type.
ContentReferenceMaps ==
    { [files |-> FilesOf({StructureDefinition(IdA, "resource", "specialization",
                                              Undefined, TRUE,
                                              declared \o <<ContentReference(IdA, fragment)>>),
                          StructureDefinition(BackboneElementName, "complex-type",
                                              "specialization", Undefined, TRUE, <<>>),
                          PrimitiveDefinition(StringName)}),
       order |-> <<IdA, BackboneElementName, StringName>>] :
        declared \in {<<>>, <<Typed(IdA \o <<".","x">>, <<StringName>>)>>,
                      <<Typed(IdA \o <<".","b">>, <<BackboneElementName>>)>>},
        fragment \in {IdA \o <<".","x">>, <<"#">> \o IdA \o <<".","x">>,
                      <<"#">> \o IdA \o <<".","b">>} }

\* Resource B has an element whose type options name resource A, followed or
\* not by an element whose path passes through it, and A may derive from B.
DependencyMaps ==
    { [files |-> FilesOf({StructureDefinition(IdB, "resource", "specialization",
                                              Undefined, TRUE,
                                              <<Typed(IdB \o <<".","x">>, codes)>>
                                              \o nested),
                          StructureDefinition(IdA, "resource", "specialization",
                                              base, TRUE, <<>>)}),
       order |-> o] :
        codes \in {<<IdA>>, <<IdA, IdMissing>>},
        nested \in {<<>>, <<Typed(IdB \o <<".","x",".","y">>, <<IdA>>)>>},
        base \in {Undefined, Profile(IdB)},
        o \in {<<IdA, IdB>>, <<IdB, IdA>>} }

DocumentMaps ==
    WalkerMaps \cup ComposerMaps \cup AllocatorMaps \cup PrimitiveMaps \cup WildcardMaps
    \cup FilterMaps \cup ContentReferenceMaps \cup DependencyMaps

(***************************************************************************)
(* The state machine: the caller calls processFiles, whose for .. in loop  *)
(* takes one document of the map per step.                                 *)
(***************************************************************************)
\* The resolver's memory, from the variables.
Mem ==
    [fileState |-> fileState, heap |-> heap, enumArrays |-> enumArrays,
     enumMembers |-> enumMembers, typesByName |-> typesByName,
     types |-> result.types, errors |-> result.errors,
     currentFile |-> currentFile, status |-> "ok", walk |-> walk, log |-> log]

\* The variables, from the memory after a step.
Install(m) ==
    /\ fileState' = m.fileState
    /\ heap' = m.heap
    /\ enumArrays' = m.enumArrays
    /\ enumMembers' = m.enumMembers
    /\ typesByName' = m.typesByName
    /\ result' = [types |-> m.types, errors |-> m.errors]
    /\ currentFile' = m.currentFile
    /\ walk' = m.walk
    /\ log' = m.log

NoWalk == [baseType |-> NoNode, name |-> Undefined]

Init ==
    /\ \E d \in DocumentMaps : files = d.files /\ order = d.order
    /\ fileState = [id \in DOMAIN files |->
                      [referenced |-> FALSE, queued |-> FALSE, processed |-> FALSE,
                       symbol |-> Undefined, type |-> NoNode]]
    /\ heap = <<>>
    /\ enumArrays = <<>>
    /\ enumMembers = <<>>
    /\ typesByName = <<>>
    /\ result = [types |-> <<>>, errors |-> <<>>]
    /\ currentFile = Undefined
    /\ pc = "idle"
    /\ next = 0
    /\ calls = 0
    /\ returned = <<>>
    /\ walk = NoWalk
    /\ log = <<>>

\* The caller calls processFiles on the Document Map (lines 9-18: the
\* locals of the call are fresh, the documents are the caller's objects).
ProcessFilesCall ==
    /\ pc \in {"idle", "done"}
    /\ calls < MaxCalls
    /\ calls' = calls + 1
    /\ typesByName' = <<>>
    /\ result' = [types |-> <<>>, errors |-> <<>>]
    /\ currentFile' = Undefined
    /\ next' = 1
    /\ pc' = "loop"
    /\ log' = Append(log, <<"call", calls + 1>>)
    /\ UNCHANGED <<files, order, fileState, heap, enumArrays, enumMembers,
                   returned, walk>>

\* One pass of the for .. in loop on a resource definition that is not a
\* constrained type: referenceFile(file).
LoopReference ==
    /\ pc = "loop"
    /\ next <= Len(order)
    /\ isResourceDefinition(files[order[next]])
    /\ ~isConstrainedType(files[order[next]])
    /\ \E m \in {referenceFile(Mem, order[next])} :
          /\ Install(m)
          /\ pc' = CASE m.status = "ok" -> "loop"
                     [] m.status = "thrown" -> "thrown"
                     [] m.status = "hang" -> "hasBaseInterface"
    /\ next' = next + 1
    /\ UNCHANGED <<files, order, calls, returned>>

\* One pass on a constrained-type resource definition: the warning only.
LoopSkipConstrained ==
    /\ pc = "loop"
    /\ next <= Len(order)
    /\ isResourceDefinition(files[order[next]])
    /\ isConstrainedType(files[order[next]])
    /\ next' = next + 1
    /\ UNCHANGED <<files, order, fileState, heap, enumArrays, enumMembers,
                   typesByName, result, currentFile, pc, calls, returned, walk, log>>

\* One pass on a document that is no resource definition.
LoopSkipOther ==
    /\ pc = "loop"
    /\ next <= Len(order)
    /\ ~isResourceDefinition(files[order[next]])
    /\ next' = next + 1
    /\ UNCHANGED <<files, order, fileState, heap, enumArrays, enumMembers,
                   typesByName, result, currentFile, pc, calls, returned, walk, log>>

\* return result
ProcessFilesReturn ==
    /\ pc = "loop"
    /\ next > Len(order)
    /\ pc' = "done"
    /\ returned' = Append(returned, result)
    /\ UNCHANGED <<files, order, fileState, heap, enumArrays, enumMembers,
                   typesByName, result, currentFile, next, calls, walk, log>>

\* One more pass of the while loop of hasBaseInterface, once it repeats:
\* baseType = getTypeByName(baseType.baseType).
HasBaseInterfaceIterate ==
    /\ pc = "hasBaseInterface"
    /\ \E g \in {getTypeByName(Mem, heap[walk.baseType].baseType)} :
          Install([g.m EXCEPT !.walk = [walk EXCEPT !.baseType = g.r]])
    /\ UNCHANGED <<files, order, pc, next, calls, returned>>

Next ==
    \/ ProcessFilesCall
    \/ LoopReference
    \/ LoopSkipConstrained
    \/ LoopSkipOther
    \/ ProcessFilesReturn
    \/ HasBaseInterfaceIterate

Spec == Init /\ [][Next]_vars

\* The program is one thread that always takes its next step.
FairSpec == Spec /\ WF_vars(Next)

(***************************************************************************)
(* Reading the history and the result.                                     *)
(***************************************************************************)
\* The positions of the entry <<ev, what>> in the history.
At(ev, what) == {i \in DOMAIN log : log[i] = <<ev, what>>}

\* The position of the only entry <<ev, what>>, 0 when there is none.
PosOf(ev, what) == IF At(ev, what) = {} THEN 0 ELSE CHOOSE i \in At(ev, what) : TRUE

\* The type list of a result, node by node, as the caller reads it.
TypeList(r) == [i \in DOMAIN r.types |-> heap[r.types[i]]]

\* The position of document d's node in the output list, 0 when d has
\* contributed none.
TypePos(d) ==
    IF \E i \in DOMAIN result.types : result.types[i] = fileState[d].type
    THEN CHOOSE i \in DOMAIN result.types : result.types[i] = fileState[d].type
    ELSE 0

\* Documents A and B are each other's base type.
BaseCycle ==
    /\ IdB \in DOMAIN files
    /\ files[IdA].baseDefinition = Profile(IdB)
    /\ files[IdB].baseDefinition = Profile(IdA)

(***************************************************************************)
(* C1.  Determinism: the second of two processFiles calls in succession on *)
(* the same Document Map returns a type list and an error list identical   *)
(* to those of the first call.                                             *)
(***************************************************************************)
C1_SecondCallIdentical ==
    Len(returned) >= 2 =>
        /\ TypeList(returned[2]) = TypeList(returned[1])
        /\ returned[2].errors = returned[1].errors

(***************************************************************************)
(* C2.  Missing base type: a structure definition whose baseDefinition     *)
(* names a document that is not in the map contributes no node to the      *)
(* output list and none to the registry.                                   *)
(***************************************************************************)
C2_MissingBaseNoNode ==
    \A d \in DOMAIN files :
        files[d].baseDefinition = Profile(IdMissing) =>
            /\ fileState[d].type \notin Range(result.types)
            /\ d \notin DOMAIN typesByName

(***************************************************************************)
(* C3.  Cycle safety: when A's base is B and B's base is A, whatever the   *)
(* differential element lists, the call finishes, and A and B are each     *)
(* queued once and processed once, in that order.                          *)
(***************************************************************************)
C3_CycleResolves ==
    BaseCycle =>
        /\ pc # "hasBaseInterface"
        /\ pc = "done" =>
              \A d \in {IdA, IdB} :
                  fileState[d].referenced =>
                      /\ Cardinality(At("queued", d)) = 1
                      /\ Cardinality(At("processed", d)) = 1
                      /\ PosOf("queued", d) < PosOf("processed", d)

C5_NoException == pc # "thrown"

(***************************************************************************)
(* C6.  Termination: every loop inside a visit terminates, so no loop     *)
(* comes back to a configuration (its locals and the resolver's memory)    *)
(* it has been in before.                                                  *)
(***************************************************************************)
C6_NoLoopRepeats == pc # "hasBaseInterface"

(***************************************************************************)
(* C7.  Every string of a returned error list starts with "<filename>: "   *)
(* for the filename of some document of the map.                           *)
(***************************************************************************)
C7_ErrorsAttributed ==
    \A k \in DOMAIN returned : \A i \in DOMAIN returned[k].errors :
        \E d \in DOMAIN files :
            StartsWith(returned[k].errors[i], files[d].filename \o <<":", " ">>)

(***************************************************************************)
(* C8.  No two members of the member list of an EnumType (value set or     *)
(* code system) have the same name.                                        *)
(***************************************************************************)
C8_MemberNamesUnique ==
    \A n \in DOMAIN heap :
        (heap[n].kind = "EnumType" /\ heap[n].members # 0) =>
            \A i, j \in DOMAIN enumArrays[heap[n].members] :
                i # j => enumMembers[enumArrays[heap[n].members][i]].name
                         # enumMembers[enumArrays[heap[n].members][j]].name

\* The name of the node at position i of the output list.
NameAt(i) == heap[result.types[i]].name

\* The positions of the output list whose node has the name of an earlier
\* node of the list.
Collisions(name) ==
    {i \in DOMAIN result.types :
        NameAt(i) = name /\ \E j \in 1..(i - 1) : NameAt(j) = name}

\* The positions of the error list that report a duplicate of name.
DuplicateErrors(name) ==
    {i \in DOMAIN result.errors :
        LET e == result.errors[i]
            text == <<"Duplicate type name '">> \o name \o <<"'.">>
        IN Len(e) >= Len(text) /\ SubSeq(e, Len(e) - Len(text) + 1, Len(e)) = text}

(***************************************************************************)
(* C9.  Type-name collisions are refused, not renamed: a node registered   *)
(* under a name the registry already holds gets one "Duplicate type name"  *)
(* error, the registry keeps pointing at the earlier node, and the new     *)
(* node, with its name, is still appended to the output list.              *)
(***************************************************************************)
C9_CollisionsRefused ==
    \A i \in DOMAIN result.types :
        Truthy(NameAt(i)) =>
            /\ NameAt(i) \in DOMAIN typesByName
            /\ (i \in Collisions(NameAt(i))) = (typesByName[NameAt(i)] # result.types[i])
            /\ Cardinality(DuplicateErrors(NameAt(i))) = Cardinality(Collisions(NameAt(i)))

\* Two nodes of the output list have the same name.
C9_Witness ==
    \E i \in DOMAIN result.types : Truthy(NameAt(i)) /\ Collisions(NameAt(i)) # {}

\* The assignments to document d's type field, in the history.
TypeWrites(d) == {i \in DOMAIN log : log[i][1] = "type" /\ log[i][2][1] = d}

(***************************************************************************)
(* C10.  A document's type field is assigned at most once: once it refers  *)
(* to a node it refers to that node for the rest of the run, over every    *)
(* later visit and every later processFiles call.                          *)
(***************************************************************************)
C10_TypeSetOnce ==
    \A d \in DOMAIN files :
        /\ Cardinality(TypeWrites(d)) <= 1
        /\ \A i \in TypeWrites(d) : fileState[d].type = log[i][2][2]
        /\ fileState[d].type # NoNode => TypeWrites(d) # {}

\* The value set has been composed from an include with a filter, which
\* visits the code system a second time once it has its type.
C10_Witness ==
    /\ IdValueSet \in DOMAIN files
    /\ fileState[IdValueSet].processed
    /\ \E i \in DOMAIN files[IdValueSet].include :
          /\ files[IdValueSet].include[i].hasFilter
          /\ files[IdValueSet].include[i].system = IdCodeSystem
    /\ fileState[IdCodeSystem].type # NoNode

\* A processFile call on document d is to return at once.
Guarded(d) ==
    fileState[d].queued \/ fileState[d].processed \/ ~files[d].hasContent

(***************************************************************************)
(* C11.  A document's visit state only moves forward: queued and processed *)
(* are never cleared and processed implies queued; and a processFile call  *)
(* on a document that is Queued, Processed or without content returns at   *)
(* once, leaving the document states, the registry, the output list, the   *)
(* error list and the current-document cursor as they were.                *)
(***************************************************************************)
C11_VisitForward ==
    /\ [](\A d \in DOMAIN files :
             /\ fileState[d].processed => fileState[d].queued
             /\ Cardinality(At("queued", d)) <= 1
             /\ Cardinality(At("processed", d)) <= 1
             /\ Guarded(d) => processFile(Mem, d) = Mem)
    /\ [][\A d \in DOMAIN files :
             /\ fileState[d].queued => fileState'[d].queued
             /\ fileState[d].processed => fileState'[d].processed]_vars

\* The value set imports itself, so processFile was called on it while it
\* was Queued; that call has returned and the visit has finished.
C11_Witness ==
    /\ pc # "idle"
    /\ IdValueSet \in DOMAIN files
    /\ fileState[IdValueSet].processed
    /\ \E i \in DOMAIN files[IdValueSet].include :
          /\ files[IdValueSet].include[i].hasValueSet
          /\ files[IdValueSet].include[i].valueSet = <<IdValueSet>>

\* The names of the members of document d's EnumType, in list order.
MemberNames(d) ==
    [i \in DOMAIN enumArrays[heap[fileState[d].type].members] |->
        enumMembers[enumArrays[heap[fileState[d].type].members][i]].name]

\* The value set composes from system T, concept active / "Active", and
\* system U, concept active / "Active (Other)"; its visit has finished.
CollisionExample ==
    /\ IdValueSet \in DOMAIN files
    /\ files[IdValueSet].include =
          <<Concepts(UrlNoDocument, <<Concept(ActiveCode, ActiveDisplay)>>),
            Concepts(UrlOther, <<Concept(ActiveCode, ActiveOtherDisplay)>>)>>
    /\ fileState[IdValueSet].processed

(***************************************************************************)
(* C12 as stated.  Collision fallback: a value set composed from two       *)
(* includes whose systems have no document, the first with the concept     *)
(* active / "Active" and the second with the concept active /              *)
(* "Active (Other)", has exactly two members, named Active and Active_1.   *)
(***************************************************************************)
C12_ActiveAndActive1 ==
    CollisionExample =>
        MemberNames(IdValueSet) = <<ActiveDisplay, ActiveDisplay \o <<"_","1">>>>

\* The value set composes from system T and system U, which both list the
\* concept active / "Active"; its visit has finished.
SameDisplayExample ==
    /\ IdValueSet \in DOMAIN files
    /\ files[IdValueSet].include =
          <<Concepts(UrlNoDocument, <<Concept(ActiveCode, ActiveDisplay)>>),
            Concepts(UrlOther, <<Concept(ActiveCode, ActiveDisplay)>>)>>
    /\ fileState[IdValueSet].processed

(***************************************************************************)
(* C12 amended.  The value set of the example has exactly two members,     *)
(* named Active and ActiveOther: the two display texts give different      *)
(* names and nothing collides.  The fallback names Active and Active_1     *)
(* are those of two includes that both list active / "Active".             *)
(***************************************************************************)
C12_ActiveAndActiveOther ==
    /\ CollisionExample =>
          MemberNames(IdValueSet) = <<ActiveDisplay, ActiveDisplay \o <<"O","t","h","e","r">>>>
    /\ SameDisplayExample =>
          MemberNames(IdValueSet) = <<ActiveDisplay, ActiveDisplay \o <<"_","1">>>>

\* The call on the map of the example has returned.
C12_Witness == CollisionExample /\ pc # "idle" /\ Len(MemberNames(IdValueSet)) = 2

LessThanOrEqualName == <<"L","e","s","s","T","h","a","n","O","r","E","q","u","a","l">>

\* The members of the EnumTypes of the value sets that were built from a
\* concept with code "<=": node and position in its member list.
LessOrEqualMembers ==
    UNION { { <<n, i>> : i \in {j \in DOMAIN enumArrays[heap[n].members] :
                                  enumMembers[enumArrays[heap[n].members][j]].value
                                      = LessOrEqualCode} } :
            n \in {k \in DOMAIN heap : /\ heap[k].kind = "EnumType"
                                       /\ heap[k].category = CatValueSet} }

\* The name of the member at position p[2] of the list of node p[1].
MemberNameAt(p) == enumMembers[enumArrays[heap[p[1]].members][p[2]]].name

\* s is zero or more numeric suffixes "_k".
IsNumericSuffixes(s) ==
    \A i \in 1..Len(s) :
        \/ s[i] = "_" /\ i < Len(s) /\ IsDigit(s[i + 1])
        \/ IsDigit(s[i]) /\ i > 1

InlineOnly(d) ==
    /\ files[d].resourceType = "ValueSet"
    /\ \A k \in DOMAIN files[d].include :
          /\ Truthy(files[d].include[k].system)
          /\ getValueSetFile(files[d].include[k].system) = Undefined

PolymorphicExample(options) ==
    /\ files[IdA] = StructureDefinition(
                        IdA, "resource", "specialization", Undefined, TRUE,
                        <<Typed(IdA \o <<".","v","[","x","]">>, options)>>)
    /\ fileState[IdA].queued

\* The property the walker adds for a run of type options.
PolymorphicProperty(name, type) ==
    [name |-> name, description |-> Undefined, type |-> type, optional |-> TRUE]

(***************************************************************************)
(* C14.  Polymorphic collapse and split: for A.v[x] with the options        *)
(* string, string the walker adds exactly one property, vString, typed by   *)
(* a union of two string references; with the options string,               *)
(* BackboneElement it adds exactly vString and vBackboneElement, each       *)
(* typed by its single reference.                                           *)
(***************************************************************************)
C14_CollapseAndSplit ==
    /\ PolymorphicExample(<<StringName, StringName>>) =>
          heap[fileState[IdA].type].properties =
              <<PolymorphicProperty(
                    <<"v","S","t","r","i","n","g">>,
                    createUnionType(<<createTypeReference(StringName),
                                      createTypeReference(StringName)>>))>>
    /\ PolymorphicExample(<<StringName, BackboneElementName>>) =>
          heap[fileState[IdA].type].properties =
              <<PolymorphicProperty(<<"v","S","t","r","i","n","g">>,
                                    createTypeReference(StringName)),
                PolymorphicProperty(<<"v">> \o BackboneElementName,
                                    createTypeReference(BackboneElementName))>>

\* The entries of the history between the start and the end of document
\* d's visit that report an error.
ErrorsDuring(d) ==
    {i \in DOMAIN log :
        /\ log[i][1] = "error"
        /\ PosOf("referenced", d) < i
        /\ i < PosOf("returned", d)}

\* Document d has been visited and its node is the Primitive node boolean
\* with the intrinsic representation boolean, and the visit, with the
\* registration of the node, has appended no error.
BooleanPrimitive(d) ==
    /\ fileState[d].type # NoNode
    /\ heap[fileState[d].type].kind = "Primitive"
    /\ heap[fileState[d].type].name = BooleanName
    /\ heap[fileState[d].type].intrinsicType = BooleanName
    /\ ErrorsDuring(d) = {}

\* Document d is a structure definition boolean whose root element's short
\* text holds "Primitive", and the first referenceFile call on it has
\* returned.
BooleanVisited(d) ==
    /\ files[d].resourceType = "StructureDefinition"
    /\ files[d].id = BooleanName
    /\ files[d].hasDifferential
    /\ IndexOf(files[d].differential[1].short, PrimitiveMarker) # 0
    /\ PosOf("returned", d) # 0

ConstrainedResource(d) ==
    isResourceDefinition(files[d]) /\ files[d].derivation = "constraint"

\* Document d's visit is under way at position i of the history.
InProgressAt(d, i) ==
    /\ PosOf("queued", d) # 0
    /\ PosOf("queued", d) < i
    /\ PosOf("processed", d) = 0 \/ i < PosOf("processed", d)

Occurrences(r, n) == Cardinality({i \in DOMAIN r.types : r.types[i] = n})

(***************************************************************************)
(* C17.  referenceFile is idempotent: a call on a document whose           *)
(* referenced flag is set changes nothing, so a document is referenced     *)
(* once, referenceFile returns from its one working call at most once, and *)
(* the document's node is pushed by it at most once.                       *)
(***************************************************************************)
C17_ReferenceFileIdempotent ==
    \A d \in DOMAIN files :
        /\ fileState[d].referenced => referenceFile(Mem, d) = Mem
        /\ Cardinality(At("referenced", d)) <= 1
        /\ Cardinality(At("returned", d)) <= 1
        /\ fileState[d].type # NoNode
           => /\ Cardinality(At("push", fileState[d].type)) <= 1
              /\ Occurrences(result, fileState[d].type) <= 1

\* Resource A derives from resource B and comes first in the map: B was
\* referenced inside A's visit, and the loop called referenceFile on B again.
C17_Witness ==
    /\ pc = "done"
    /\ IdB \in DOMAIN files
    /\ isResourceDefinition(files[IdB])
    /\ ~isConstrainedType(files[IdB])
    /\ files[IdA].baseDefinition = Profile(IdB)
    /\ InProgressAt(IdA, PosOf("referenced", IdB))
    /\ PosOf("returned", IdB) # 0
    /\ Occurrences(result, fileState[IdB].type) = 1

\* Document d is one the loop of processFiles seeds.
SeedEligible(d) ==
    isResourceDefinition(files[d]) /\ files[d].derivation # "constraint"

(***************************************************************************)
(* C18.  Errors never stop the batch: when processFiles has returned,      *)
(* every seed-eligible document is referenced and Processed and no         *)
(* document is left Queued, however many errors were appended.             *)
(***************************************************************************)
C18_BatchCompletes ==
    pc = "done"
    => \A d \in DOMAIN files :
          /\ SeedEligible(d) => fileState[d].referenced /\ fileState[d].processed
          /\ fileState[d].queued => fileState[d].processed

\* processFiles has returned; an error was appended before a seed-eligible
\* document's visit began, and that document is Processed.
C18_Witness ==
    /\ pc = "done"
    /\ \E d \in DOMAIN files :
          /\ SeedEligible(d)
          /\ fileState[d].processed
          /\ \E i \in DOMAIN log :
                /\ log[i][1] = "error"
                /\ i < PosOf("queued", d)

\* The names a declared option stands for: the open-type codes for the
\* wildcard, string for xhtml, the option's code otherwise.
ExpandOption(code) ==
    IF code = <<"*">> THEN OpenTypeCodes
    ELSE IF code = XhtmlName THEN <<StringName>> ELSE <<code>>

RECURSIVE ExpandTypes(_)
ExpandTypes(codes) ==
    IF codes = <<>> THEN <<>> ELSE ExpandOption(Head(codes)) \o ExpandTypes(Tail(codes))

\* The codes of the declared type options of an element.
DeclaredCodes(element) == [i \in DOMAIN element.type |-> element.type[i].code]

\* The declared types of the element hold the wildcard, carry no profile,
\* and every name they stand for is a document of the map.
WildcardElement(element) ==
    /\ element.hasType
    /\ <<"*">> \in Range(DeclaredCodes(element))
    /\ \A i \in DOMAIN element.type : element.type[i].profile = Undefined
    /\ Range(ExpandTypes(DeclaredCodes(element))) \subseteq DOMAIN files

(***************************************************************************)
(* C19.  Wildcard expansion: once the visit of a document has walked an    *)
(* element whose declared types hold "*", getTypeReferences returns for it *)
(* one reference for each of the 25 open-type options, in their order, at  *)
(* the place of the wildcard (a list that holds only "*" yields 25         *)
(* references), and so every open-type document has been referenced.       *)
(***************************************************************************)
C19_WildcardExpands ==
    \A d \in DOMAIN files : \A e \in DOMAIN files[d].differential :
        /\ WildcardElement(files[d].differential[e])
        /\ fileState[d].queued
        => LET r == getTypeReferences(Mem, files[d].differential[e]).r
           IN /\ ~r.isNull
              /\ [i \in DOMAIN r.refs |-> r.refs[i].name]
                    = ExpandTypes(DeclaredCodes(files[d].differential[e]))
              /\ \A n \in Range(OpenTypeCodes) : fileState[n].referenced

\* The concepts of value set d with their systems, include after include.
RECURSIVE ConceptsFrom(_, _)
ConceptsFrom(includes, k) ==
    IF k > Len(includes) THEN <<>>
    ELSE [i \in DOMAIN includes[k].concept |->
             [system |-> includes[k].system, concept |-> includes[k].concept[i]]]
         \o ConceptsFrom(includes, k + 1)

\* Value set d is composed of listed concepts only, of systems that have no
\* document, its visit has finished, and the members allocated are those of
\* its concepts, one each, in order.
FoldedInline(d) ==
    /\ InlineOnly(d)
    /\ \A k \in DOMAIN files[d].include :
          /\ files[d].include[k].hasConcept
          /\ ~files[d].include[k].hasFilter
          /\ ~files[d].include[k].hasValueSet
    /\ fileState[d].processed
    /\ fileState[d].type # NoNode
    /\ Len(enumMembers) = Len(ConceptsFrom(files[d].include, 1))

\* The members as they were allocated: member i under the name candidate of
\* its concept.
Candidates(d) ==
    LET concepts == ConceptsFrom(files[d].include, 1)
    IN [i \in DOMAIN concepts |->
           [enumMembers[i] EXCEPT
               !.name = getEnumMemberName(Mem, concepts[i].system, concepts[i].concept).r]]

HasName(list, name) == \E i \in DOMAIN list : list[i].name = name

FirstNamed(list, name) ==
    CHOOSE i \in DOMAIN list :
        list[i].name = name /\ \A j \in DOMAIN list : list[j].name = name => i <= j

RECURSIVE SuffixedName(_, _, _)
SuffixedName(list, name, k) ==
    IF HasName(list, name \o <<"_">> \o NumberToString(k))
    THEN SuffixedName(list, name, k + 1)
    ELSE name \o <<"_">> \o NumberToString(k)

\* The lists the stated priority allows when member N is folded into list.
\* Case (3) is read both ways: the collision is removed when, E renamed, no
\* member has N's name, or no member has N's alternate name.
PriorityOutcomes(list, N) ==
    IF ~HasName(list, N.name) THEN {Append(list, N)}
    ELSE LET e == FirstNamed(list, N.name)
             altN == getAlternateName(N)
             altE == getAlternateName(list[e])
             renamed == [list EXCEPT ![e].name = altE]
             numbered == Append(list, [N EXCEPT !.name = SuffixedName(list, N.name, 1)])
         IN IF list[e] = N THEN {list}
            ELSE IF Truthy(altN) /\ ~HasName(list, altN)
            THEN {Append(list, [N EXCEPT !.name = altN])}
            ELSE (IF Truthy(altE) /\ ~HasName(renamed, N.name)
                  THEN {Append(renamed, N)} ELSE {numbered})
                 \cup
                 (IF Truthy(altE) /\ Truthy(altN) /\ ~HasName(renamed, altN)
                  THEN {Append(renamed, [N EXCEPT !.name = altN])} ELSE {numbered})

RECURSIVE PriorityFold(_, _, _)
PriorityFold(lists, members, i) ==
    IF i > Len(members) THEN lists
    ELSE PriorityFold(UNION {PriorityOutcomes(list, members[i]) : list \in lists},
                      members, i + 1)

\* The members of document d's EnumType, in list order.
MemberList(d) ==
    [i \in DOMAIN enumArrays[heap[fileState[d].type].members] |->
        enumMembers[enumArrays[heap[fileState[d].type].members][i]]]

(***************************************************************************)
(* C20.  The member list of a composed value set is what the fixed         *)
(* priority gives when its members are folded in one after the other:      *)
(* (1) a member equal to the same-named member E is dropped; (2) else N    *)
(* takes its alternate name if no member has it; (3) else E takes its      *)
(* alternate name if that removes the collision; (4) else N gets its       *)
(* original name plus "_k" for the smallest free k >= 1; and in case (4),  *)
(* a failed attempt of (3) included, no existing member's name is changed. *)
(***************************************************************************)
C20_CollisionPriority ==
    \A d \in DOMAIN files :
        files[d].resourceType = "ValueSet" /\ FoldedInline(d)
        => MemberList(d) \in PriorityFold({<<>>}, Candidates(d), 1)

\* The filters of value set d that are not "is-a" filters on "concept", as
\* pairs of include and filter position.
OtherFilters(d) ==
    UNION { { <<k, j>> : j \in {j \in DOMAIN files[d].include[k].filter :
                                   \/ files[d].include[k].filter[j].op # "is-a"
                                   \/ files[d].include[k].filter[j].property # "concept"} } :
            k \in {k \in DOMAIN files[d].include :
                      /\ Truthy(files[d].include[k].system)
                      /\ files[d].include[k].hasFilter} }

\* The filter errors appended while document d's visit was under way.
FilterErrors(d) ==
    {i \in DOMAIN log :
        /\ log[i][1] = "error"
        /\ PosOf("queued", d) < i
        /\ i < PosOf("processed", d)
        /\ \E j \in DOMAIN log[i][2] :
              log[i][2][j] \in {"Do not know how to process filter operation '",
                                "Do not know how to process filter property '"}}

(***************************************************************************)
(* C21.  Once a value set's visit has finished, every filter of its        *)
(* includes whose operator is not "is-a" or whose property is not          *)
(* "concept" has appended one error, whether or not the include's system   *)
(* is a document of the map, and where every filter is of that kind no     *)
(* member was added to the member list the filters work on.                *)
(***************************************************************************)
C21_OtherFiltersAreErrors ==
    \A d \in DOMAIN files :
        files[d].resourceType = "ValueSet" /\ fileState[d].processed
        => /\ Cardinality(FilterErrors(d)) = Cardinality(OtherFilters(d))
           /\ \A k \in DOMAIN files[d].include :
                 /\ files[d].include[k].hasFilter
                 /\ \A j \in DOMAIN files[d].include[k].filter : <<k, j>> \in OtherFilters(d)
                 /\ files[d].include[k].system \in DOMAIN files
                 /\ fileState[files[d].include[k].system].type # NoNode
                 => Len(enumArrays[MembersOf(Mem, files[d].include[k].system)])
                       = Len(files[files[d].include[k].system].concept)

\* The documents on the base chain of document d, d included, following
\* baseDefinition through the map for at most fuel links.
RECURSIVE BaseChain(_, _)
BaseChain(d, fuel) ==
    IF fuel = 0 \/ files[d].baseDefinition = Undefined
       \/ IndexOf(files[d].baseDefinition, HttpBase) = 0
       \/ SubSeq(files[d].baseDefinition, Len(HttpBase) + 1,
                 Len(files[d].baseDefinition)) \notin DOMAIN files
    THEN {d}
    ELSE {d} \cup BaseChain(SubSeq(files[d].baseDefinition, Len(HttpBase) + 1,
                                   Len(files[d].baseDefinition)), fuel - 1)

\* Document d is a structure definition whose base, if it names one, is a
\* document of the map, and whose first element after the root element has
\* a root path segment that names no document of d's base chain.
ForeignRootFirst(d) ==
    /\ files[d].resourceType = "StructureDefinition"
    /\ files[d].hasDifferential
    /\ Len(files[d].differential) >= 2
    /\ IndexOfChar(files[d].differential[1].path, ".") = 0
    /\ IndexOfChar(files[d].differential[2].path, ".") # 0
    /\ Truthy(getPropertyName(files[d].differential[2].path))
    /\ BaseChain(d, 1) = {d} => files[d].baseDefinition = Undefined
    /\ Head(Split(files[d].differential[2].path, "."))
          \notin BaseChain(d, Cardinality(DOMAIN files))

\* The walk of document d's elements has begun and is over: the visit has
\* finished, or the walk is in the loop of hasBaseInterface for good.
WalkOver(d) ==
    \/ fileState[d].processed
    \/ pc = "hasBaseInterface" /\ currentFile = d

\* The error the element root validation of document d appends for root.
ExpectedToBe(d, root) ==
    Filename(d) \o <<":", " ">> \o <<"Expected '">> \o root \o <<"' to be a '">>
    \o d \o <<"'.">>

(***************************************************************************)
(* C22.  Element root validation: when the first property element of       *)
(* document D has a root path segment that is neither D's name nor the     *)
(* name of an ancestor on the base chain, D's walk appends the error for   *)
(* it and aborts D's build: the visit returns, D's node has no property,   *)
(* and nothing but the abort's own error follows in D's visit, so no later *)
(* element is processed.                                                   *)
(***************************************************************************)
C22_ForeignRootAborts ==
    \A d \in DOMAIN files :
        ForeignRootFirst(d) /\ WalkOver(d)
        => /\ fileState[d].processed
           /\ heap[fileState[d].type].properties = <<>>
           /\ \E i \in DOMAIN log :
                 /\ log[i] = <<"error",
                               ExpectedToBe(d, Head(Split(files[d].differential[2].path,
                                                          ".")))>>
                 /\ PosOf("queued", d) < i
                 /\ PosOf("processed", d) = i + 2
                 /\ log[i + 1][1] = "error"

\* The first property element of document d is a plain element of d itself
\* whose single type option is Element or BackboneElement, and d's visit has
\* begun; d names no base.
SubTypeElementFirst(d) ==
    /\ files[d].resourceType = "StructureDefinition"
    /\ files[d].kind = "resource"
    /\ files[d].baseDefinition = Undefined
    /\ Len(files[d].differential) >= 2
    /\ LET element == files[d].differential[2]
       IN /\ Split(element.path, ".") = <<d, getPropertyName(element.path)>>
          /\ Truthy(getPropertyName(element.path))
          /\ ~IsPolymorphicName(getPropertyName(element.path))
          /\ element.contentReference = Undefined
          /\ ~element.hasBinding
          /\ element.max # "0"
          /\ element.hasType
          /\ Len(element.type) = 1
          /\ element.type[1].code \in {ElementName, BackboneElementName}
          /\ element.type[1].code \in DOMAIN files
    /\ fileState[d].queued

\* The places of the output list that hold a sub-type made for the element.
SubTypePlaces(element) ==
    {i \in DOMAIN result.types :
        /\ heap[result.types[i]].kind = "InterfaceType"
        /\ heap[result.types[i]].category = CatSubType
        /\ heap[result.types[i]].name = pascalCase(element.path)
        /\ heap[result.types[i]].baseType = element.type[1].code}

(***************************************************************************)
(* C23.  Sub-type synthesis: once the visit of document D has walked a     *)
(* plain element whose single type option is Element or BackboneElement,   *)
(* the output list holds a new InterfaceType of category SubType, named by *)
(* the pascal-cased element path, whose baseType is that option; it stands *)
(* before D's own node in the output list; and D's node has the property,  *)
(* typed by a reference to the sub-type's name (in an array when the       *)
(* element's max is not "1").                                              *)
(***************************************************************************)
C23_SubTypeSynthesis ==
    \A d \in DOMAIN files :
        SubTypeElementFirst(d)
        => LET element == files[d].differential[2]
               reference == createTypeReference(pascalCase(element.path))
           IN /\ SubTypePlaces(element) # {}
              /\ TypePos(d) # 0
              /\ \A i \in SubTypePlaces(element) : i < TypePos(d)
              /\ \E k \in DOMAIN heap[fileState[d].type].properties :
                    /\ heap[fileState[d].type].properties[k].name
                          = getPropertyName(element.path)
                    /\ heap[fileState[d].type].properties[k].type
                          = IF element.max = "1" THEN reference
                            ELSE createArrayType(reference)

\* Document d names no base, its last element carries a content reference,
\* the elements before it are the root element and at most one plain
\* property element of d, and d's visit has begun.
ContentReferenceLast(d) ==
    /\ files[d].resourceType = "StructureDefinition"
    /\ files[d].kind = "resource"
    /\ files[d].baseDefinition = Undefined
    /\ Len(files[d].differential) \in {2, 3}
    /\ Truthy(files[d].differential[Len(files[d].differential)].contentReference)
    /\ \A e \in 2..Len(files[d].differential) :
          /\ Split(files[d].differential[e].path, ".")
                = <<d, getPropertyName(files[d].differential[e].path)>>
          /\ ~IsPolymorphicName(getPropertyName(files[d].differential[e].path))
          /\ ~files[d].differential[e].hasBinding
          /\ files[d].differential[e].max = "1"
          /\ e < Len(files[d].differential)
             => /\ files[d].differential[e].contentReference = Undefined
                /\ files[d].differential[e].hasType
                /\ Len(files[d].differential[e].type) = 1
                /\ files[d].differential[e].type[1].code \in DOMAIN files
    /\ fileState[d].queued

\* The error text msg was appended for document d.
ErrorOf(d, msg) == <<"error", Filename(d) \o <<":", " ">> \o msg>> \in Range(log)

\* The properties of document d's node that carry the name.
PropertiesNamed(d, name) ==
    {k \in DOMAIN heap[fileState[d].type].properties :
        heap[fileState[d].type].properties[k].name = name}

(***************************************************************************)
(* C24.  Content reference: once document D's visit has walked an element  *)
(* with a content-reference fragment, D's node has a property for it only  *)
(* when the fragment starts with "#" and names a property of D that        *)
(* resolves to an InterfaceType, and the property's type is then a         *)
(* reference naming that interface; a fragment without "#", a fragment     *)
(* that names no property, and a match that is no interface type have      *)
(* each appended their error and D's node has no property for the element. *)
(***************************************************************************)
C24_ContentReference ==
    \A d \in DOMAIN files :
        ContentReferenceLast(d)
        => LET elements == files[d].differential
               element == elements[Len(elements)]
               fragment == element.contentReference
               name == getPropertyName(element.path)
               target == getPropertyName(fragment)
               Declared == {e \in 2..(Len(elements) - 1) :
                               getPropertyName(elements[e].path) = target}
           IN IF fragment[1] # "#"
              THEN /\ ErrorOf(d, <<"Expected content reference '">> \o fragment
                                 \o <<"' to start with #.">>)
                   /\ PropertiesNamed(d, name) = {}
              ELSE IF Declared = {}
              THEN /\ ErrorOf(d, <<"Could not resolve content reference '">>
                                 \o fragment \o <<"'.">>)
                   /\ PropertiesNamed(d, name) = {}
              ELSE IF \A e \in Declared :
                         elements[e].type[1].code \in {ElementName, BackboneElementName}
              THEN \E k \in PropertiesNamed(d, name) : \E e \in Declared :
                      heap[fileState[d].type].properties[k].type
                         = createTypeReference(pascalCase(elements[e].path))
              ELSE /\ ErrorOf(d, <<"Expected content reference to resolve to an interface type.">>)
                   /\ PropertiesNamed(d, name) = {}

\* The documents whose visit is under way at position i of the history.
VisitsAt(i) == {d \in DOMAIN files : InProgressAt(d, i)}

\* The document visited innermost at position i: the one queued last.
InnermostAt(i) ==
    CHOOSE d \in VisitsAt(i) :
        \A e \in VisitsAt(i) : PosOf("queued", e) <= PosOf("queued", d)

(***************************************************************************)
(* C25.  Error attribution follows a stack discipline: every error carries *)
(* the filename of the document visited innermost when it was appended (so *)
(* X's filename after a nested visit of Y has returned, Y's filename       *)
(* inside Y's visit) and no filename when no visit was under way; and the  *)
(* cursor is empty whenever no visit is under way.                         *)
(***************************************************************************)
C25_CursorStack ==
    /\ \A i \in DOMAIN log :
          log[i][1] = "error"
          => IF VisitsAt(i) = {}
             THEN \A d \in DOMAIN files :
                     ~StartsWith(log[i][2], files[d].filename \o <<":", " ">>)
             ELSE StartsWith(log[i][2], files[InnermostAt(i)].filename \o <<":", " ">>)
    /\ pc \in {"idle", "loop", "done"} => currentFile = Undefined

\* processFiles has returned; an error was appended inside the visit of y,
\* nested in the visit of x, and one by x after y's visit had ended.
C25_Witness ==
    /\ pc = "done"
    /\ \E x, y \in DOMAIN files : \E i, j \in DOMAIN log :
          /\ x # y
          /\ log[i][1] = "error" /\ log[j][1] = "error"
          /\ InProgressAt(x, i) /\ InProgressAt(y, i)
          /\ PosOf("queued", x) < PosOf("queued", y)
          /\ PosOf("processed", y) < j
          /\ InProgressAt(x, j)
          /\ StartsWith(log[i][2], files[y].filename \o <<":", " ">>)
          /\ StartsWith(log[j][2], files[x].filename \o <<":", " ">>)

\* The output lists: those of the calls that returned and the current one.
OutputLists == Range(returned) \cup {result}

(***************************************************************************)
(* C26.  No node occurs twice in an output list: a document's node is      *)
(* pushed at most once and holds at most one place of a list, and a        *)
(* synthesized sub-type is pushed exactly once and holds exactly one place *)
(* of the list of the call that made it.                                   *)
(***************************************************************************)
C26_NoNodeTwice ==
    /\ \A r \in OutputLists : \A i, j \in DOMAIN r.types :
          r.types[i] = r.types[j] => i = j
    /\ \A d \in DOMAIN files :
          fileState[d].type # NoNode
          => Cardinality(At("push", fileState[d].type)) <= 1
    /\ \A n \in DOMAIN heap :
          heap[n].category = CatSubType
          => /\ Cardinality(At("push", n)) = 1
             /\ Occurrences(result, n) = 1

\* A sub-type was synthesized in A's visit, and a document referenced inside
\* that visit has its node in the list as well.
C26_Witness ==
    /\ \E n \in DOMAIN heap :
          heap[n].category = CatSubType /\ n \in Range(result.types)
    /\ \E d \in DOMAIN files \ {IdA} :
          /\ PosOf("referenced", d) # 0
          /\ InProgressAt(IdA, PosOf("referenced", d))
          /\ fileState[d].type # NoNode
          /\ Occurrences(result, fileState[d].type) = 1

\* The places of the output list that hold a node with a name.
NamedPlaces == {i \in DOMAIN result.types : Truthy(NameAt(i))}

\* The positions of the error list that report a duplicate type name.
AllDuplicateErrors ==
    {i \in DOMAIN result.errors :
        \E k \in DOMAIN result.errors[i] :
            result.errors[i][k] = "Duplicate type name '"}

(***************************************************************************)
(* C27.  The registry is consistent with the output list: every registry   *)
(* entry maps its name to the first node of that name in the list, and the *)
(* number of named nodes in the list is the number of registry entries     *)
(* plus the number of "Duplicate type name" errors appended so far.        *)
(***************************************************************************)
C27_RegistryConsistent ==
    /\ \A name \in DOMAIN typesByName :
          \E i \in NamedPlaces :
              /\ result.types[i] = typesByName[name]
              /\ NameAt(i) = name
              /\ \A j \in 1..(i - 1) : NameAt(j) # name
    /\ Cardinality(NamedPlaces)
          = Cardinality(DOMAIN typesByName) + Cardinality(AllDuplicateErrors)

\* The list holds nodes under two different names, one of them twice.
C27_Witness ==
    /\ Cardinality(DOMAIN typesByName) >= 2
    /\ AllDuplicateErrors # {}
    /\ Cardinality(NamedPlaces) >= 3

\* The memory of a run in which nothing has been visited.
FreshMem ==
    [Mem EXCEPT !.fileState = [id \in DOMAIN files |->
                                 [referenced |-> FALSE, queued |-> FALSE,
                                  processed |-> FALSE, symbol |-> Undefined,
                                  type |-> NoNode]],
                !.heap = <<>>, !.enumArrays = <<>>, !.enumMembers = <<>>,
                !.typesByName = <<>>, !.types = <<>>, !.errors = <<>>,
                !.currentFile = Undefined, !.walk = NoWalk, !.log = <<>>]

\* The member list processCodeSystem builds for code system d.
OwnMemberList(d) ==
    Let([m \in {processCodeSystem(FreshMem, d)} |->
        [i \in DOMAIN m.enumArrays[MembersOf(m, d)] |->
            m.enumMembers[m.enumArrays[MembersOf(m, d)][i]]]])

\* The value sets that name code system d in an include.
IncludedBy(d) ==
    {v \in DOMAIN files :
        /\ files[v].resourceType = "ValueSet"
        /\ fileState[v].queued
        /\ \E i \in DOMAIN files[v].include : files[v].include[i].system = d}

(***************************************************************************)
(* C28.  Composing a value set leaves the enum types it draws from         *)
(* unchanged: a Processed code system that value sets include or filter    *)
(* has the member list its own visit built, the same members in the same   *)
(* order under the same names.                                             *)
(***************************************************************************)
C28_ComposeLeavesOthers ==
    \A d \in DOMAIN files :
        (files[d].resourceType = "CodeSystem" /\ fileState[d].processed
            /\ IncludedBy(d) # {})
        => MemberList(d) = OwnMemberList(d)

\* The base-type references of the documents form no cycle.
AcyclicBases ==
    \A d \in DOMAIN files :
        LET base == getResourceNameFromProfile(Mem, files[d].baseDefinition).r
        IN (files[d].baseDefinition # Undefined /\ base \in DOMAIN files)
           => d \notin BaseChain(base, Cardinality(DOMAIN files))

(***************************************************************************)
(* C29.  Dependencies come first in the output list: when the base-type    *)
(* references are acyclic, every InterfaceType node of the list whose      *)
(* baseType names a document with a node in the list comes after that      *)
(* document's node.                                                        *)
(***************************************************************************)
C29_BaseFirst ==
    AcyclicBases =>
        \A i \in DOMAIN result.types :
            LET node == heap[result.types[i]]
            IN (node.kind = "InterfaceType" /\ node.baseType \in DOMAIN files)
               => (TypePos(node.baseType) # 0 => TypePos(node.baseType) < i)

\* Node n is the type node of a document whose visit has ended, or a
\* synthesized sub-type.
SettledNode(n) ==
    \/ \E d \in DOMAIN files : fileState[d].processed /\ fileState[d].type = n
    \/ heap[n].category = CatSubType

====
